---- MODULE Spec2Model ----
(***************************************************************************)
(* A model of the financial calculation engine of loan-calculator:         *)
(* src/app/utils/loanCalculations.ts (EMI, amortization schedule, summary, *)
(* extra-payment impact, calculateLoanSchedule), the income projections    *)
(* calculateFutureValue and calculateIncomeGrowth, the advanced metrics    *)
(* and tax functions of src/unnamed/part_006, the tab-state cache of       *)
(* src/app/utils/cacheUtils.ts and the LoanCalculator page that uses it.   *)
(*                                                                         *)
(* JavaScript numbers are modelled in fixed point.  An amount of money is  *)
(* an integer count of 1/Unit rupee; toFixed(2) rounds it to a whole       *)
(* number of Cent.  A rate or a growth factor is an integer count of       *)
(* 1/Prec.  Products and quotients are formed exactly (MulDivMod) and then *)
(* rounded to the nearest representable value, as one IEEE operation is.   *)
(***************************************************************************)
EXTENDS Integers, Sequences, FiniteSets

VARIABLES
    params,        \* LoanParams handed to the loan engine
    calls,         \* the engine functions that have been applied so far
    emiResult,     \* outcome of calculateEMI(params)
    schedule,      \* generateAmortizationSchedule(params)
    summary,       \* calculateLoanSummary(schedule)
    impact,        \* getExtraPaymentImpact(params)
    loanSchedule,  \* calculateLoanSchedule on params, as the compound page calls it
    incomeParams,  \* IncomeParams handed to calculateFutureValue
    incomeSchedule,\* calculateFutureValue(incomeParams)
    incomeSummary, \* calculateIncomeSummary(incomeSchedule)
    growthParams,  \* IncomeGrowthParams handed to calculateIncomeGrowth
    growthData,    \* calculateIncomeGrowth(growthParams)
    advParams,     \* AdvancedAnalysisParams handed to the advanced metrics
    breakEven,     \* calculateBreakEvenPoint(advParams)
    fiParams,      \* the arguments of calculateYearsToFI
    fiResult,      \* outcome of calculateYearsToFI(fiParams)
    cmpParams,     \* the arguments of comparePrepaymentVsInvestment
    cmpResult,     \* outcome of comparePrepaymentVsInvestment(cmpParams)
    metrics,       \* calculateAdvancedMetrics(advParams)
    roi,           \* calculateROI(advParams)
    interestPaid,  \* the argument of calculateTaxSavings
    income,        \* the argument of calculateYearlyTax
    taxSavings,    \* calculateTaxSavings(interestPaid)
    yearlyTax,     \* calculateYearlyTax(income)
    localStorage,  \* window.localStorage: the item stored under STORAGE_KEY
    cacheCall,     \* the last cache function applied, its tab and its outcome
    saved,         \* per tab, the state last saved and not cleared since
    page           \* the LoanCalculator component: its state and last step

vars == <<params, calls, emiResult, schedule, summary, impact, loanSchedule,
          incomeParams, incomeSchedule, incomeSummary, growthParams, growthData,
          advParams, breakEven, fiParams, fiResult, cmpParams, cmpResult,
          metrics, roi, interestPaid, income, taxSavings, yearlyTax,
          localStorage, cacheCall, saved, page>>

loanVars == <<params, emiResult, schedule, summary, impact, loanSchedule>>
incomeVars == <<incomeParams, incomeSchedule, incomeSummary, growthParams, growthData>>
advancedVars == <<advParams, breakEven, fiParams, fiResult, cmpParams, cmpResult>>
taxVars == <<interestPaid, income, taxSavings, yearlyTax>>
metricVars == <<metrics, roi, taxVars>>
cacheVars == <<localStorage, cacheCall, saved, page>>

---------------------------------------------------------------------------
(* Number representation *)

\* resolution of an amount: 1/Unit rupee.  Unit is a multiple of 100 (a
\* hundredth is a whole count) and of 18018, so that an explored amount
\* divided by any tenure up to 15 months is representable, as the double
\* quotient is to within one part in 10^15
Unit == 900900
\* resolution of a rate or factor: 1/Prec
Prec == 100000000
\* toFixed(2) keeps hundredths
Hundredths == 100
Cent == Unit \div Hundredths
\* a rate is entered in percent; the model counts hundredths of a percent
PerCent == 100

\* Bounds of the explored inputs
MaxTenure == 13
MaxStartMonth == 2
MaxHorizon == 13

Max(a, b) == IF a >= b THEN a ELSE b
Min(a, b) == IF a <= b THEN a ELSE b
Abs(a) == IF a >= 0 THEN a ELSE -a

\* <<q, r>> with a * b = q * c + r and 0 <= r < c, for a, b >= 0 and
\* 0 < c < 2^27, formed three bits of b at a time so that no intermediate
\* is wider than 32 bits
RECURSIVE MulDivMod(_, _, _)
MulDivMod(a, b, c) ==
    IF b = 0 THEN <<0, 0>>
    ELSE LET h == MulDivMod(a, b \div 8, c)
             low == b % 8
             t == 8 * h[2] + (a % c) * low
         IN  <<8 * h[1] + (a \div c) * low + (t \div c), t % c>>

\* a * b / c rounded to the nearest integer (a, b >= 0, 0 < c < 2^27)
MulDiv(a, b, c) ==
    IF a = 0 \/ b = 0 THEN 0
    ELSE LET m == MulDivMod(Max(a, b), Min(a, b), c)
         IN  m[1] + (IF 2 * m[2] >= c THEN 1 ELSE 0)

\* Number(x.toFixed(2)): x rounded to a whole number of hundredths
ToFixed2(x) ==
    IF x >= 0 THEN ((x + (Cent \div 2)) \div Cent) * Cent
    ELSE -((((-x) + (Cent \div 2)) \div Cent) * Cent)

\* Math.pow(x, n) for a factor x and a whole n >= 0, by repeated squaring
RECURSIVE Pow(_, _)
Pow(x, n) ==
    IF n <= 0 THEN Prec
    ELSE LET half == Pow(x, n \div 2)
             square == MulDiv(half, half, Prec)
         IN  IF n % 2 = 0 THEN square ELSE MulDiv(square, x, Prec)

\* (annualRate / 12) / 100 as a factor; annualRate in hundredths of a percent
MonthlyRate(annualRate) == MulDiv(annualRate, Prec, 12 * 100 * PerCent)

\* Array.prototype.reduce((sum, x) => sum + x, 0)
RECURSIVE SumSeq(_)
SumSeq(s) == IF Len(s) = 0 THEN 0 ELSE s[1] + SumSeq(Tail(s))

---------------------------------------------------------------------------
(* Loan amortization engine: src/app/utils/loanCalculations.ts *)

Frequencies == {"monthly", "quarterly", "semiannually", "annually"}

\* a slip that drops the zero-rate special case (line 28)
calculateEMI_NoZeroRate(p) ==
    LET principal == Max(0, p.loanAmount)
        ratePerMonth == MonthlyRate(p.annualInterestRate)
        tenure == Max(1, p.loanTenureMonths)
        growth == Pow(Prec + ratePerMonth, tenure)
    IN  IF principal = 0 \/ tenure = 0 THEN 0
        ELSE IF growth = Prec THEN 0
        ELSE MulDiv(principal, MulDiv(ratePerMonth, growth, growth - Prec), Prec)

\* calculateEMI, lines 22-34.  The quotient r * (1+r)^n / ((1+r)^n - 1) is
\* formed first and then scaled by the principal.
calculateEMI(p) ==
    LET principal == Max(0, p.loanAmount)
        ratePerMonth == MonthlyRate(p.annualInterestRate)
        tenure == Max(1, p.loanTenureMonths)
        growth == Pow(Prec + ratePerMonth, tenure)
    IN  IF principal = 0 \/ tenure = 0 THEN 0
        ELSE IF p.annualInterestRate = 0 THEN MulDiv(principal, 1, tenure)
        ELSE IF growth = Prec THEN 0   \* division by zero: not finite
        ELSE MulDiv(principal, MulDiv(ratePerMonth, growth, growth - Prec), Prec)

\* lines 50-72: the extra payment of a month
\* a slip in lines 50-72 that counts the periods from month 1 instead of
\* from extraPaymentStartMonth
ExtraPaymentFor_FromMonthOne(p, month) ==
    IF month >= p.extraPaymentStartMonth
    THEN CASE p.extraPaymentFrequency = "monthly" -> p.extraPayment
           [] p.extraPaymentFrequency = "quarterly" ->
                IF (month - 1) % 3 = 0 THEN p.extraPayment ELSE 0
           [] p.extraPaymentFrequency = "semiannually" ->
                IF (month - 1) % 6 = 0 THEN p.extraPayment ELSE 0
           [] p.extraPaymentFrequency = "annually" ->
                IF (month - 1) % 12 = 0 THEN p.extraPayment ELSE 0
           [] OTHER -> 0
    ELSE 0

ExtraPaymentFor(p, month) ==
    IF month >= p.extraPaymentStartMonth
    THEN CASE p.extraPaymentFrequency = "monthly" -> p.extraPayment
           [] p.extraPaymentFrequency = "quarterly" ->
                IF (month - p.extraPaymentStartMonth) % 3 = 0
                THEN p.extraPayment ELSE 0
           [] p.extraPaymentFrequency = "semiannually" ->
                IF (month - p.extraPaymentStartMonth) % 6 = 0
                THEN p.extraPayment ELSE 0
           [] p.extraPaymentFrequency = "annually" ->
                IF (month - p.extraPaymentStartMonth) % 12 = 0
                THEN p.extraPayment ELSE 0
           [] OTHER -> 0
    ELSE 0

\* a sign slip on line 75: principal -= extraPayment
AdjustPrincipal_Subtract(principal, extraPayment) == principal - extraPayment

\* line 75: principal += extraPayment
AdjustPrincipal(principal, extraPayment) == principal + extraPayment

\* lines 77-80 left out: the payment is never clamped
ClampPrincipal_NoClamp(principal, remainingBalance) == principal

\* lines 77-80: ensure we don't overpay
ClampPrincipal(principal, remainingBalance) ==
    IF principal > remainingBalance THEN remainingBalance ELSE principal

\* lines 84-92: the row pushed for a month
AmortizationRow(month, emi, principal, interest, remainingBalance, extraPayment) ==
    [month |-> month,
     payment |-> ToFixed2(emi),
     principal |-> ToFixed2(principal),
     interest |-> ToFixed2(interest),
     remainingBalance |-> ToFixed2(remainingBalance),
     extraPayment |-> ToFixed2(extraPayment),
     totalPayment |-> ToFixed2(emi)]

\* lines 44-95: the while loop, from its state (remainingBalance, month, schedule)
RECURSIVE ScheduleLoop(_, _, _, _, _)
ScheduleLoop(p, emi, remainingBalance, month, rows) ==
    IF remainingBalance > 0 /\ month <= p.loanTenureMonths
    THEN LET ratePerMonth == MonthlyRate(p.annualInterestRate)
             interest == MulDiv(remainingBalance, ratePerMonth, Prec)
             extraPayment == ExtraPaymentFor(p, month)
             principal == ClampPrincipal(
                              AdjustPrincipal(emi - interest, extraPayment),
                              remainingBalance)
             newBalance == remainingBalance - principal
         IN  ScheduleLoop(p, emi, newBalance, month + 1,
                 Append(rows, AmortizationRow(month, emi, principal, interest,
                                              newBalance, extraPayment)))
    ELSE rows

\* generateAmortizationSchedule, lines 36-98
generateAmortizationSchedule(p) ==
    LET emi == calculateEMI(p)
    IN  IF emi = 0 THEN <<>>
        ELSE ScheduleLoop(p, emi, p.loanAmount, 1, <<>>)

\* calculateLoanSummary, lines 100-123
calculateLoanSummary(s) ==
    IF Len(s) = 0
    THEN [monthlyEMI |-> 0, totalPayments |-> 0, totalInterest |-> 0,
          totalExtraPayments |-> 0, totalTenureMonths |-> 0]
    ELSE [monthlyEMI |-> s[1].payment,
          totalPayments |-> SumSeq([i \in 1..Len(s) |-> s[i].principal + s[i].interest]),
          totalInterest |-> SumSeq([i \in 1..Len(s) |-> s[i].interest]),
          totalExtraPayments |-> SumSeq([i \in 1..Len(s) |-> s[i].extraPayment]),
          totalTenureMonths |-> Len(s)]

\* lines 190-198: the extra payment of a month of calculateLoanSchedule,
\* months counted from 0
LoanScheduleExtraPayment(q, month, remainingBalance, principalComponent) ==
    IF q.extraPayment > 0
       /\ \/ q.extraPaymentFrequency = "monthly"
          \/ q.extraPaymentFrequency = "quarterly" /\ month % 3 = 0
          \/ q.extraPaymentFrequency = "semiannually" /\ month % 6 = 0
          \/ q.extraPaymentFrequency = "annually" /\ month % 12 = 0
    THEN Min(q.extraPayment, remainingBalance - principalComponent)
    ELSE 0

\* lines 185-219: the for loop, from its state (remainingBalance, month, data);
\* the break of line 217 leaves it where its condition would
RECURSIVE LoanScheduleLoop(_, _, _, _, _)
LoanScheduleLoop(q, emi, remainingBalance, month, data) ==
    IF month <= q.tenureMonths /\ remainingBalance > 0
    THEN LET monthlyRate == MonthlyRate(q.annualRate)
             interest == MulDiv(remainingBalance, monthlyRate, Prec)
             extraPayment ==
                 LoanScheduleExtraPayment(q, month, remainingBalance,
                                          emi - interest)
             principalComponent == Min(emi - interest, remainingBalance)
             newBalance ==
                 Max(0, remainingBalance - principalComponent - extraPayment)
         IN  LoanScheduleLoop(q, emi, newBalance, month + 1,
                 Append(data,
                        [month |-> month, emi |-> emi,
                         principal |-> principalComponent,
                         interest |-> interest,
                         extraPayment |-> extraPayment,
                         totalPayment |->
                             principalComponent + interest + extraPayment,
                         remainingBalance |-> newBalance]))
    ELSE data

\* calculateLoanSchedule, lines 170-221
calculateLoanSchedule(q) ==
    LET emi == calculateEMI([loanAmount |-> q.principal,
                             annualInterestRate |-> q.annualRate,
                             loanTenureMonths |-> q.tenureMonths,
                             extraPayment |-> 0,
                             extraPaymentFrequency |-> "monthly",
                             extraPaymentStartMonth |-> 1])
    IN  LoanScheduleLoop(q, emi, q.principal, 0, <<>>)

\* getExtraPaymentImpact, lines 223-237
getExtraPaymentImpact(p) ==
    LET sum == calculateLoanSummary(generateAmortizationSchedule(p))
        paramsWithoutExtraPayment == [p EXCEPT !.extraPayment = 0]
        summaryWithoutExtraPayment ==
            calculateLoanSummary(generateAmortizationSchedule(paramsWithoutExtraPayment))
    IN  [interestSaved |-> summaryWithoutExtraPayment.totalInterest - sum.totalInterest,
         tenureReduced |-> summaryWithoutExtraPayment.totalTenureMonths
                             - sum.totalTenureMonths]

---------------------------------------------------------------------------
(* Income growth engine: calculateFutureValue (src/unnamed/part_005) and   *)
(* calculateIncomeGrowth (src/app/utils/cacheUtils.ts)                     *)

ContributionFrequencies == {"monthly", "quarterly", "annually", "one-time"}
GrowthFrequencies == {"monthly", "annually"}

\* Math.pow(t, 1 / 12) for a factor t >= 1: Newton's iteration
\* x <- (11 x + t / x^11) / 12 from an x above the root, until it stops
\* decreasing
RECURSIVE Root12From(_, _)
Root12From(x, t) ==
    LET next == (11 * x + MulDiv(t, Prec, Pow(x, 11))) \div 12
    IN  IF next >= x THEN x ELSE Root12From(next, t)

\* part_005 line 34: Math.pow(1 + annualGrowthRate / 100, 1 / 12) - 1
CompoundedMonthlyRate(annualGrowthRate) ==
    LET t == Prec + MulDiv(annualGrowthRate, Prec, 100 * PerCent)
    IN  Root12From(Prec + ((t - Prec) \div 12) + 1, t) - Prec

\* part_005 lines 43-56: the contribution of a month
\* a slip in lines 43-56 that pays at the end of a period: month % 3 === 0
\* and month % 12 === 0
ContributionFor_PeriodEnd(p, month) ==
    CASE p.contributionFrequency = "monthly" -> p.periodicContribution
      [] p.contributionFrequency = "quarterly" ->
           IF month % 3 = 0 THEN p.periodicContribution ELSE 0
      [] p.contributionFrequency = "annually" ->
           IF month % 12 = 0 THEN p.periodicContribution ELSE 0
      [] p.contributionFrequency = "one-time" ->
           IF month = 1 THEN p.periodicContribution ELSE 0
      [] OTHER -> 0

ContributionFor(p, month) ==
    CASE p.contributionFrequency = "monthly" -> p.periodicContribution
      [] p.contributionFrequency = "quarterly" ->
           IF month % 3 = 1 THEN p.periodicContribution ELSE 0
      [] p.contributionFrequency = "annually" ->
           IF month % 12 = 1 THEN p.periodicContribution ELSE 0
      [] p.contributionFrequency = "one-time" ->
           IF month = 1 THEN p.periodicContribution ELSE 0
      [] OTHER -> 0

\* a slip that grows the balance before the contribution is added
GrowthOf_BeforeContribution(startingBalance, contribution, monthlyRate) ==
    MulDiv(startingBalance, monthlyRate, Prec)

\* part_005 line 58: growth of a month
GrowthOf(startingBalance, contribution, monthlyRate) ==
    MulDiv(startingBalance + contribution, monthlyRate, Prec)

\* part_005 lines 38-69: the for loop, from its state
RECURSIVE FutureValueLoop(_, _, _, _, _)
FutureValueLoop(p, monthlyRate, month, currentBalance, rows) ==
    IF month <= p.timeHorizonMonths
    THEN LET startingBalance == currentBalance
             contribution == ContributionFor(p, month)
             growth == GrowthOf(startingBalance, contribution, monthlyRate)
             endingBalance == startingBalance + contribution + growth
         IN  FutureValueLoop(p, monthlyRate, month + 1, endingBalance,
                 Append(rows, [month |-> month,
                               startingBalance |-> startingBalance,
                               contribution |-> contribution,
                               growth |-> growth,
                               endingBalance |-> endingBalance]))
    ELSE rows

\* calculateFutureValue, part_005 lines 25-72
calculateFutureValue(p) ==
    FutureValueLoop(p, CompoundedMonthlyRate(p.annualGrowthRate), 1,
                    p.initialAmount, <<>>)

\* a slip that reports the balance the last month started from
calculateIncomeSummary_FinalStart(rows) ==
    IF Len(rows) = 0
    THEN [finalBalance |-> 0, totalContributions |-> 0, totalGrowth |-> 0]
    ELSE [finalBalance |-> rows[Len(rows)].startingBalance,
          totalContributions |->
              SumSeq([i \in 1..Len(rows) |-> rows[i].contribution]),
          totalGrowth |-> SumSeq([i \in 1..Len(rows) |-> rows[i].growth])]

\* calculateIncomeSummary, part_005 lines 74-92
calculateIncomeSummary(rows) ==
    IF Len(rows) = 0
    THEN [finalBalance |-> 0, totalContributions |-> 0, totalGrowth |-> 0]
    ELSE [finalBalance |-> rows[Len(rows)].endingBalance,
          totalContributions |->
              SumSeq([i \in 1..Len(rows) |-> rows[i].contribution]),
          totalGrowth |-> SumSeq([i \in 1..Len(rows) |-> rows[i].growth])]

\* An optional field is <<>> (undefined) or <<v>>.
Defined(o) == Len(o) > 0
Truthy(o) == Len(o) > 0 /\ o[1] # 0
OrZero(o) == IF Len(o) > 0 THEN o[1] ELSE 0

\* cacheUtils.ts lines 256-267: the row pushed for a month; a field is spread
\* into the row only when its value is truthy
\* a slip that reports the deflated balance as the month's totalValue
MonthlyIncomeData_Deflated(month, currentAmount, totalContributions, monthlyIncome, adjValue, adjIncome, taxBracket, taxOnIncome) ==
    [month |-> month,
     totalValue |-> IF Truthy(adjValue) THEN adjValue[1] ELSE currentAmount,
     totalContributions |-> totalContributions,
     monthlyIncome |-> monthlyIncome,
     inflationAdjustedValue |-> IF Truthy(adjValue) THEN adjValue ELSE <<>>,
     inflationAdjustedIncome |-> IF Truthy(adjIncome) THEN adjIncome ELSE <<>>,
     yearlyInterest |-> IF Truthy(taxBracket) THEN <<monthlyIncome * 12>> ELSE <<>>,
     yearlyTax |-> IF Truthy(taxBracket) THEN <<taxOnIncome * 12>> ELSE <<>>]

MonthlyIncomeData(month, currentAmount, totalContributions, monthlyIncome, adjValue, adjIncome, taxBracket, taxOnIncome) ==
    [month |-> month,
     totalValue |-> currentAmount,
     totalContributions |-> totalContributions,
     monthlyIncome |-> monthlyIncome,
     inflationAdjustedValue |-> IF Truthy(adjValue) THEN adjValue ELSE <<>>,
     inflationAdjustedIncome |-> IF Truthy(adjIncome) THEN adjIncome ELSE <<>>,
     yearlyInterest |-> IF Truthy(taxBracket) THEN <<monthlyIncome * 12>> ELSE <<>>,
     yearlyTax |-> IF Truthy(taxBracket) THEN <<taxOnIncome * 12>> ELSE <<>>]

\* cacheUtils.ts lines 237-270: the for loop, from its state
RECURSIVE IncomeGrowthLoop(_, _, _, _, _)
IncomeGrowthLoop(p, month, currentAmount, totalContributions, data) ==
    IF month <= p.timeHorizonMonths
    THEN LET monthlyRate == MonthlyRate(p.annualGrowthRate)
             monthlyInflation == MonthlyRate(OrZero(p.annualInflationRate))
             contributes == \/ p.contributionFrequency = "monthly"
                            \/ /\ p.contributionFrequency = "annually"
                               /\ month % 12 = 0
             contribution ==
                 IF ~contributes THEN 0
                 ELSE IF p.contributionFrequency = "monthly"
                      THEN p.monthlyContribution
                      ELSE p.monthlyContribution * 12
             invested == currentAmount + contribution
             monthlyIncome == MulDiv(invested, monthlyRate, Prec)
             taxOnIncome ==
                 IF Truthy(p.taxBracket)
                 THEN MulDiv(monthlyIncome, p.taxBracket[1], 100)
                 ELSE 0
             netIncome == monthlyIncome - taxOnIncome
             newAmount == invested + netIncome
             inflationFactor == Pow(Prec + monthlyInflation, month)
             inflationAdjustedValue ==
                 IF Truthy(p.annualInflationRate)
                 THEN <<MulDiv(newAmount, Prec, inflationFactor)>> ELSE <<>>
             inflationAdjustedIncome ==
                 IF Truthy(p.annualInflationRate)
                 THEN <<MulDiv(monthlyIncome, Prec, inflationFactor)>> ELSE <<>>
         IN  IncomeGrowthLoop(p, month + 1, newAmount,
                 totalContributions + contribution,
                 Append(data, MonthlyIncomeData(month, newAmount,
                                  totalContributions + contribution, monthlyIncome,
                                  inflationAdjustedValue, inflationAdjustedIncome,
                                  p.taxBracket, taxOnIncome)))
    ELSE data

\* a slip that starts the loop of line 237 at month 1
calculateIncomeGrowth_FromMonthOne(p) ==
    IncomeGrowthLoop(p, 1, p.initialAmount, p.initialAmount, <<>>)

\* calculateIncomeGrowth, cacheUtils.ts lines 228-273
calculateIncomeGrowth(p) ==
    IncomeGrowthLoop(p, 0, p.initialAmount, p.initialAmount, <<>>)

---------------------------------------------------------------------------
(* Advanced metrics engine: src/unnamed/part_006.  Its divisions can have  *)
(* a zero divisor, so its numbers carry the IEEE special values: a number  *)
(* is finite (v its fixed-point value), NaN, or an infinity (v its sign).  *)

Fin(x) == [kind |-> "finite", v |-> x]
NaN == [kind |-> "NaN", v |-> 0]
Infinity(sign) == [kind |-> "Infinity", v |-> sign]

IsFinite(a) == a.kind = "finite"
IsNaN(a) == a.kind = "NaN"
Sign(x) == IF x < 0 THEN -1 ELSE 1

\* a * b / c rounded to the nearest integer, for signed a and b
SignedMulDiv(a, b, c) == Sign(a) * Sign(b) * MulDiv(Abs(a), Abs(b), c)

\* a * b, where b counts 1/scale
JsTimes(a, b, scale) ==
    IF IsNaN(a) \/ IsNaN(b) THEN NaN
    ELSE IF IsFinite(a) /\ IsFinite(b) THEN Fin(SignedMulDiv(a.v, b.v, scale))
    ELSE IF (IsFinite(a) /\ a.v = 0) \/ (IsFinite(b) /\ b.v = 0) THEN NaN
    ELSE Infinity(Sign(a.v) * Sign(b.v))

\* a / b, the quotient counting 1/scale when a and b count the same unit
JsOver(a, b, scale) ==
    IF IsNaN(a) \/ IsNaN(b) THEN NaN
    ELSE IF IsFinite(a) /\ IsFinite(b)
         THEN IF b.v # 0 THEN Fin(SignedMulDiv(a.v, scale, Abs(b.v)) * Sign(b.v))
              ELSE IF a.v = 0 THEN NaN ELSE Infinity(Sign(a.v))
    ELSE IF IsFinite(b) THEN Infinity(Sign(a.v) * Sign(b.v))
    ELSE IF IsFinite(a) THEN Fin(0)
    ELSE NaN

\* a + b
JsPlus(a, b) ==
    IF IsNaN(a) \/ IsNaN(b) THEN NaN
    ELSE IF IsFinite(a) /\ IsFinite(b) THEN Fin(a.v + b.v)
    ELSE IF IsFinite(a) THEN b
    ELSE IF IsFinite(b) THEN a
    ELSE IF a.v = b.v THEN a ELSE NaN

\* -a
JsNegate(a) == IF IsNaN(a) THEN NaN ELSE [a EXCEPT !.v = -a.v]

\* a - b
JsMinus(a, b) == JsPlus(a, JsNegate(b))

\* a < b: false when either side is NaN
JsLess(a, b) ==
    IF IsNaN(a) \/ IsNaN(b) THEN FALSE
    ELSE IF IsFinite(a) /\ IsFinite(b) THEN a.v < b.v
    ELSE IF IsFinite(a) THEN b.v > 0
    ELSE IF IsFinite(b) THEN a.v < 0
    ELSE a.v < b.v

\* calculateRemainingLoanBalance, part_006 lines 338-350: the closed-form
\* balance after currentMonth payments.  The quotients r (1+r)^n / ((1+r)^n - 1)
\* and ((1+r)^k - 1) / (r (1+r)^k) are formed first and then scaled.
calculateRemainingLoanBalance(principal, annualRate, totalMonths, currentMonth) ==
    LET monthlyRate == MonthlyRate(annualRate)
        growth == Pow(Prec + monthlyRate, totalMonths)
        emi == IF growth = Prec
               THEN JsOver(Fin(MulDiv(principal, monthlyRate, Prec)), Fin(0), Prec)
               ELSE Fin(MulDiv(principal,
                               MulDiv(monthlyRate, growth, growth - Prec), Prec))
        remainingPayments == totalMonths - currentMonth
        left == Pow(Prec + monthlyRate, remainingPayments)
    IN  JsTimes(emi, JsOver(Fin(left - Prec),
                            Fin(MulDiv(monthlyRate, left, Prec)), Prec), Prec)

\* part_006 lines 158-167: the while loop, from its state
RECURSIVE BreakEvenLoop(_, _, _, _)
BreakEvenLoop(p, month, investmentValue, loanBalance) ==
    IF JsLess(Fin(investmentValue), loanBalance) /\ month < p.loanTenureMonths
    THEN LET monthlyRate == MonthlyRate(p.expectedReturn)
         IN  BreakEvenLoop(p, month + 1,
                 MulDiv(investmentValue, Prec + monthlyRate, Prec)
                     + p.monthlyInvestment,
                 calculateRemainingLoanBalance(p.loanAmount, p.loanInterestRate,
                                               p.loanTenureMonths, month))
    ELSE month

\* a slip that starts the count of line 153 at month 1
calculateBreakEvenPoint_FromMonthOne(p) ==
    BreakEvenLoop(p, 1, p.initialAmount, Fin(p.loanAmount))

\* calculateBreakEvenPoint, part_006 lines 152-170
calculateBreakEvenPoint(p) ==
    BreakEvenLoop(p, 0, p.initialAmount, Fin(p.loanAmount))

\* resolution of a factor that can exceed 21, such as an annuity factor:
\* 1/Wide
Wide == 1000000

\* calculateFutureValue of part_006, lines 327-336: the closed form
\* principal (1+r)^n + contribution ((1+r)^n - 1) / r
calculateFutureValueClosedForm(principal, monthlyContribution, monthlyRate, months) ==
    LET growth == Pow(Prec + monthlyRate, months)
        principalGrowth == JsTimes(Fin(principal), Fin(growth), Prec)
        contributionGrowth ==
            JsTimes(Fin(monthlyContribution),
                    JsOver(Fin(growth - Prec), Fin(monthlyRate), Wide), Wide)
    IN  JsPlus(principalGrowth, contributionGrowth)

\* Math.pow(t, 1 / n) for a factor t >= 0 and a whole n >= 1: Newton's
\* iteration x <- ((n - 1) x + t / x^(n - 1)) / n from an x above the root,
\* until it stops decreasing
RECURSIVE RootFrom(_, _, _)
RootFrom(x, t, n) ==
    LET next == ((n - 1) * x + MulDiv(t, Prec, Pow(x, n - 1))) \div n
    IN  IF next >= x THEN x ELSE RootFrom(next, t, n)

Root(t, n) ==
    IF t = 0 THEN 0
    ELSE IF t < Prec THEN RootFrom(Prec, t, n)
    ELSE RootFrom(Prec + ((t - Prec) \div n) + 1, t, n)

\* Math.pow(base, 12 / n) of part_006 line 69, for a whole n >= 0.  The
\* exponent is Infinity when n = 0 and is never 0, so a NaN base gives NaN.
JsPowTwelveOver(base, n) ==
    IF IsNaN(base) THEN NaN
    ELSE IF n = 0
         THEN IF ~IsFinite(base) \/ Abs(base.v) > Prec THEN Infinity(1)
              ELSE IF Abs(base.v) = Prec THEN NaN
              ELSE Fin(0)
    ELSE IF ~IsFinite(base)
         THEN IF base.v < 0 /\ 12 % n = 0 /\ (12 \div n) % 2 = 1
              THEN Infinity(-1) ELSE Infinity(1)
    ELSE IF base.v < 0
         THEN IF 12 % n # 0 THEN NaN
              ELSE IF (12 \div n) % 2 = 1 THEN Fin(-Pow(-base.v, 12 \div n))
              ELSE Fin(Pow(-base.v, 12 \div n))
    ELSE Fin(Root(Pow(base.v, 12), n))

\* x * 100, for a fraction x counting 1/Prec: a percentage in hundredths
\* of a percent
AsPercentage(x) == JsTimes(x, Fin(100 * PerCent), Prec)

\* calculateAdvancedMetrics, part_006 lines 52-91.  Amounts count 1/Unit,
\* percentages count hundredths of a percent.
calculateAdvancedMetrics(p) ==
    LET totalLoanPayment == Fin(p.monthlyEMI * p.loanTenureMonths)
        totalInterestPaid == JsMinus(totalLoanPayment, Fin(p.loanAmount))
        years == JsOver(Fin(p.loanTenureMonths), Fin(12), Prec)
        loanCostRatio ==
            AsPercentage(JsOver(totalInterestPaid, Fin(p.loanAmount), Prec))
        effectiveInterestRate == JsOver(loanCostRatio, years, Prec)
        monthlyRate == MonthlyRate(p.expectedReturn)
        totalInvestmentValue ==
            calculateFutureValueClosedForm(p.initialAmount, p.monthlyInvestment,
                                           monthlyRate, p.loanTenureMonths)
        totalInvestmentContributions ==
            Fin(p.initialAmount + p.monthlyInvestment * p.loanTenureMonths)
        totalEarnings == JsMinus(totalInvestmentValue, totalInvestmentContributions)
        effectiveReturnRate ==
            AsPercentage(
                JsMinus(JsPowTwelveOver(
                            JsOver(totalInvestmentValue,
                                   totalInvestmentContributions, Prec),
                            p.loanTenureMonths),
                        Fin(Prec)))
        investmentVsLoanRatio ==
            AsPercentage(JsOver(totalInvestmentValue, totalLoanPayment, Prec))
        wealthAccumulationRate ==
            AsPercentage(JsOver(totalEarnings, totalInvestmentContributions, Prec))
    IN  [totalInterestPaid |-> totalInterestPaid,
         effectiveInterestRate |-> effectiveInterestRate,
         loanCostRatio |-> loanCostRatio,
         totalLoanPayment |-> totalLoanPayment,
         totalInvestmentValue |-> totalInvestmentValue,
         totalInvestmentContributions |-> totalInvestmentContributions,
         totalEarnings |-> totalEarnings,
         effectiveReturnRate |-> effectiveReturnRate,
         investmentVsLoanRatio |-> investmentVsLoanRatio,
         breakevenPoint |-> calculateBreakEvenPoint(p),
         realReturnAfterInflation |->
             p.expectedReturn
                 - (IF p.inflationRate # 0 THEN p.inflationRate ELSE 6 * PerCent),
         wealthAccumulationRate |-> wealthAccumulationRate]

\* calculateROI, part_006 lines 137-150; line 145 passes expectedReturn / 12
\* as the monthly rate, without the division by 100
calculateROI(p) ==
    LET totalInvestment == p.initialAmount + p.monthlyInvestment * p.loanTenureMonths
        finalAmount ==
            calculateFutureValueClosedForm(p.initialAmount, p.monthlyInvestment,
                MulDiv(p.expectedReturn, Prec, 12 * PerCent), p.loanTenureMonths)
    IN  IF totalInvestment <= 0 THEN Fin(0)
        ELSE AsPercentage(JsOver(JsMinus(finalAmount, Fin(totalInvestment)),
                                 Fin(totalInvestment), Prec))

\* resolution of a taxed amount: 1/TaxUnit rupee
TaxUnit == 100

\* TAX_BRACKETS, part_006 lines 6-14
TAX_BRACKETS ==
    << [range |-> <<Fin(0), Fin(250000 * TaxUnit)>>, rate |-> 0],
       [range |-> <<Fin(250000 * TaxUnit), Fin(500000 * TaxUnit)>>, rate |-> 5],
       [range |-> <<Fin(500000 * TaxUnit), Fin(750000 * TaxUnit)>>, rate |-> 10],
       [range |-> <<Fin(750000 * TaxUnit), Fin(1000000 * TaxUnit)>>, rate |-> 15],
       [range |-> <<Fin(1000000 * TaxUnit), Fin(1250000 * TaxUnit)>>, rate |-> 20],
       [range |-> <<Fin(1250000 * TaxUnit), Fin(1500000 * TaxUnit)>>, rate |-> 25],
       [range |-> <<Fin(1500000 * TaxUnit), Infinity(1)>>, rate |-> 30] >>

\* Math.min(a, b): NaN when either argument is NaN
JsMin(a, b) ==
    IF IsNaN(a) \/ IsNaN(b) THEN NaN ELSE IF JsLess(b, a) THEN b ELSE a

\* a <= b: false when either side is NaN
JsAtMost(a, b) == ~IsNaN(a) /\ ~IsNaN(b) /\ ~JsLess(b, a)

\* part_006 lines 97-106: the for loop of calculateTaxSavings from bracket k
RECURSIVE TaxSavingsLoop(_, _, _)
TaxSavingsLoop(remainingAmount, taxSaving, k) ==
    IF k > Len(TAX_BRACKETS) THEN taxSaving
    ELSE LET bracket == TAX_BRACKETS[k]
             amountInBracket ==
                 JsMin(remainingAmount,
                       JsMinus(bracket.range[2], bracket.range[1]))
         IN  IF JsAtMost(amountInBracket, Fin(0)) THEN taxSaving
             ELSE TaxSavingsLoop(
                      JsMinus(remainingAmount, amountInBracket),
                      JsPlus(taxSaving,
                             JsTimes(amountInBracket, Fin(bracket.rate), 100)),
                      k + 1)

\* calculateTaxSavings, part_006 lines 93-109
calculateTaxSavings(interest) ==
    TaxSavingsLoop(JsMin(interest, Fin(200000 * TaxUnit)), Fin(0), 1)

\* part_006 lines 115-124: the for loop of calculateYearlyTax from bracket k
RECURSIVE YearlyTaxLoop(_, _, _)
YearlyTaxLoop(remainingIncome, tax, k) ==
    IF k > Len(TAX_BRACKETS) THEN tax
    ELSE LET bracket == TAX_BRACKETS[k]
             amountInBracket ==
                 JsMin(remainingIncome,
                       JsMinus(bracket.range[2], bracket.range[1]))
         IN  IF JsAtMost(amountInBracket, Fin(0)) THEN tax
             ELSE YearlyTaxLoop(
                      JsMinus(remainingIncome, amountInBracket),
                      JsPlus(tax,
                             JsTimes(amountInBracket, Fin(bracket.rate), 100)),
                      k + 1)

\* calculateYearlyTax, part_006 lines 111-127
calculateYearlyTax(yearlyIncome) == YearlyTaxLoop(yearlyIncome, Fin(0), 1)

\* part_006 lines 254-259: months per prepayment period; 0 when the
\* frequency is not a key of the map
MonthsPerPeriod(prepaymentFrequency) ==
    CASE prepaymentFrequency = "monthly" -> 1
      [] prepaymentFrequency = "quarterly" -> 3
      [] prepaymentFrequency = "semiannually" -> 6
      [] prepaymentFrequency = "annually" -> 12
      [] OTHER -> 0

\* part_006 lines 281-284: one iteration of the loop without prepayment,
\* on [tempLoan, total, i]
InterestStep(emi, monthlyInterestRate, s) ==
    LET interest == JsTimes(s.tempLoan, Fin(monthlyInterestRate), Prec)
        principal == JsMinus(emi, interest)
    IN  [tempLoan |-> JsMinus(s.tempLoan, principal),
         total |-> JsPlus(s.total, interest),
         i |-> s.i + 1]

\* part_006 lines 280-285: the for loop run for at most `steps` more
\* iterations from state s; the iterations are run in four quarters, one
\* after the other
RECURSIVE InterestWithoutPrepayment(_, _, _, _, _)
InterestWithoutPrepayment(emi, monthlyInterestRate, loanTenureMonths, s, steps) ==
    IF steps = 0 \/ ~(s.i < loanTenureMonths) THEN s
    ELSE IF steps < 4
         THEN InterestWithoutPrepayment(emi, monthlyInterestRate, loanTenureMonths,
                  InterestStep(emi, monthlyInterestRate, s), steps - 1)
    ELSE LET q == steps \div 4
             Run(from, k) ==
                 InterestWithoutPrepayment(emi, monthlyInterestRate,
                                           loanTenureMonths, from, k)
             s1 == Run(s, q)
             s2 == Run(s1, q)
             s3 == Run(s2, q)
         IN  IF ~(s1.i < loanTenureMonths) THEN s1
             ELSE IF ~(s2.i < loanTenureMonths) THEN s2
             ELSE IF ~(s3.i < loanTenureMonths) THEN s3
             ELSE Run(s3, steps - 3 * q)

\* part_006 lines 289-299: one iteration of the prepayment scenario, on
\* [remainingLoan, months, totalInterestPaid]
PrepaymentStep(emi, monthlyInterestRate, monthsPerPeriod, prepayment, s) ==
    LET months == s.months + 1
        interest == JsTimes(s.remainingLoan, Fin(monthlyInterestRate), Prec)
        principal == JsMinus(emi, interest)
        afterEmi == JsMinus(s.remainingLoan, principal)
        afterPrepayment ==
            IF months % monthsPerPeriod = 0
            THEN LET left == JsMinus(afterEmi, Fin(prepayment))
                 IN  IF JsLess(left, Fin(0)) THEN Fin(0) ELSE left
            ELSE afterEmi
    IN  [remainingLoan |-> afterPrepayment,
         months |-> months,
         totalInterestPaid |-> JsPlus(s.totalInterestPaid, interest)]

\* a slip in line 288 that drops the guard against endless loops; the
\* simulation then runs for as long as it is given
PrepaymentContinues_NoCap(s) == JsLess(Fin(0), s.remainingLoan)

\* part_006 line 288: the condition of the while loop
PrepaymentContinues(s) == JsLess(Fin(0), s.remainingLoan) /\ s.months < 1000

\* part_006 lines 288-300: the prepayment scenario run for at most `steps`
\* more iterations from state s; the iterations are run in four quarters,
\* one after the other
RECURSIVE PrepaymentLoop(_, _, _, _, _, _)
PrepaymentLoop(emi, monthlyInterestRate, monthsPerPeriod, prepayment, s, steps) ==
    IF steps = 0 \/ ~PrepaymentContinues(s) THEN s
    ELSE IF steps < 4
         THEN PrepaymentLoop(emi, monthlyInterestRate, monthsPerPeriod, prepayment,
                  PrepaymentStep(emi, monthlyInterestRate, monthsPerPeriod,
                                 prepayment, s),
                  steps - 1)
    ELSE LET q == steps \div 4
             Run(from, k) ==
                 PrepaymentLoop(emi, monthlyInterestRate, monthsPerPeriod,
                                prepayment, from, k)
             s1 == Run(s, q)
             s2 == Run(s1, q)
             s3 == Run(s2, q)
         IN  IF ~PrepaymentContinues(s1) THEN s1
             ELSE IF ~PrepaymentContinues(s2) THEN s2
             ELSE IF ~PrepaymentContinues(s3) THEN s3
             ELSE Run(s3, steps - 3 * q)

\* part_006 line 314: difference > 0 ? 'Prepay Loan' : 'Invest Money'
BetterOption(difference) ==
    IF JsLess(Fin(0), difference) THEN "Prepay Loan" ELSE "Invest Money"

NoComparison ==
    [threw |-> FALSE, monthsTakenToRepayLoan |-> 0, interestSaved |-> Fin(0),
     netGainFromInvestment |-> Fin(0), betterOption |-> "Invest Money",
     difference |-> Fin(0), totalInterestPaid |-> Fin(0),
     totalInterestWithoutPrepayment |-> Fin(0)]

\* part_006 lines 304-309, the investment scenario: the number of
\* contributions handed to calculateFutureValue, the value they grow to, the
\* amount put in, and the gain
InvestmentScenario(c, periodicInvestmentRate) ==
    LET contributions == c.loanTenureMonths
        totalInvestmentValue ==
            calculateFutureValueClosedForm(0, c.prepaymentAmountPerPeriod,
                periodicInvestmentRate, contributions)
        totalInvestment == c.prepaymentAmountPerPeriod * c.loanTenureMonths
    IN  [contributions |-> contributions,
         totalInvestmentValue |-> totalInvestmentValue,
         totalInvestment |-> totalInvestment,
         netGainFromInvestment |->
             JsMinus(totalInvestmentValue, Fin(totalInvestment))]

\* part_006 line 267: the investment return of one prepayment period
PeriodicInvestmentRate(c) ==
    MulDiv(c.investmentReturnRateAnnual * MonthsPerPeriod(c.prepaymentFrequency),
           Prec, 12 * 100 * PerCent)

\* comparePrepaymentVsInvestment, part_006 lines 246-325
comparePrepaymentVsInvestment(c) ==
    LET monthsPerPeriod == MonthsPerPeriod(c.prepaymentFrequency)
        monthlyInterestRate == MonthlyRate(c.loanInterestRateAnnual)
        periodicInvestmentRate == PeriodicInvestmentRate(c)
        growth == Pow(Prec + monthlyInterestRate, c.loanTenureMonths)
        emi == IF growth = Prec
               THEN JsOver(Fin(MulDiv(c.loanAmount, monthlyInterestRate, Prec)),
                           Fin(0), Prec)
               ELSE Fin(MulDiv(c.loanAmount,
                        MulDiv(monthlyInterestRate, growth, growth - Prec), Prec))
        totalInterestWithoutPrepayment ==
            InterestWithoutPrepayment(emi, monthlyInterestRate, c.loanTenureMonths,
                [tempLoan |-> Fin(c.loanAmount), total |-> Fin(0), i |-> 0],
                Max(0, c.loanTenureMonths)).total
        \* the simulation is given more iterations than its guard allows
        prepaid == PrepaymentLoop(emi, monthlyInterestRate, monthsPerPeriod,
                       c.prepaymentAmountPerPeriod,
                       [remainingLoan |-> Fin(c.loanAmount), months |-> 0,
                        totalInterestPaid |-> Fin(0)],
                       2 * 1000)
        interestSaved ==
            JsMinus(totalInterestWithoutPrepayment, prepaid.totalInterestPaid)
        netGainFromInvestment ==
            InvestmentScenario(c, periodicInvestmentRate).netGainFromInvestment
        difference == JsMinus(interestSaved, netGainFromInvestment)
    \* line 273 computes the installment before either loop starts, so it is
    \* evaluated here, ahead of the loops that use it
    IN  IF monthsPerPeriod = 0 \/ emi.kind = "undefined"
        THEN [NoComparison EXCEPT !.threw = TRUE]
        ELSE [threw |-> FALSE,
              monthsTakenToRepayLoan |-> prepaid.months,
              interestSaved |-> interestSaved,
              netGainFromInvestment |-> netGainFromInvestment,
              betterOption |-> BetterOption(difference),
              difference |-> difference,
              totalInterestPaid |-> prepaid.totalInterestPaid,
              totalInterestWithoutPrepayment |-> totalInterestWithoutPrepayment]

\* part_006 line 186: the safety cap of the loop
maxMonths == 100 * 12

\* resolution of a number of years (line 193, months / 12): 1/PerYear
PerYear == 12000

\* part_006 line 189: one iteration of the loop, on <<corpus, months>>
YearsToFIStep(monthlyRate, annualSavings, s) ==
    [corpus |-> SignedMulDiv(s.corpus, Prec + monthlyRate, Prec)
                    + SignedMulDiv(annualSavings, 1, 12),
     months |-> s.months + 1]

\* a slip in line 188 that keeps saving when the corpus equals the target
YearsToFIContinues_AtTarget(targetCorpus, s) ==
    s.corpus <= targetCorpus /\ s.months < maxMonths

\* part_006 line 188: the condition of the while loop
YearsToFIContinues(targetCorpus, s) ==
    s.corpus < targetCorpus /\ s.months < maxMonths

\* part_006 lines 188-191: the while loop run for at most `steps` more
\* iterations from state s; the iterations are run in four quarters, one
\* after the other
RECURSIVE YearsToFILoop(_, _, _, _, _)
YearsToFILoop(targetCorpus, monthlyRate, annualSavings, s, steps) ==
    IF steps = 0 \/ ~YearsToFIContinues(targetCorpus, s) THEN s
    ELSE IF steps < 4
         THEN YearsToFILoop(targetCorpus, monthlyRate, annualSavings,
                  YearsToFIStep(monthlyRate, annualSavings, s), steps - 1)
    ELSE LET q == steps \div 4
             Run(from, k) ==
                 YearsToFILoop(targetCorpus, monthlyRate, annualSavings, from, k)
             s1 == Run(s, q)
             s2 == Run(s1, q)
             s3 == Run(s2, q)
         IN  IF ~YearsToFIContinues(targetCorpus, s1) THEN s1
             ELSE IF ~YearsToFIContinues(targetCorpus, s2) THEN s2
             ELSE IF ~YearsToFIContinues(targetCorpus, s3) THEN s3
             ELSE Run(s3, steps - 3 * q)

\* a slip that returns 0 years where lines 177-179 throw
calculateYearsToFI_ReturnsZero(annualExpenses, annualSavings, realReturn) ==
    IF annualSavings <= 0 THEN [threw |-> FALSE, value |-> 0]
    ELSE LET targetCorpus == annualExpenses * 25
             monthlyRate == SignedMulDiv(realReturn, Prec, 12 * 100 * PerCent)
             months == YearsToFILoop(targetCorpus, monthlyRate, annualSavings,
                                    [corpus |-> 0, months |-> 0], maxMonths).months
         IN  [threw |-> FALSE, value |-> MulDiv(months, PerYear, 12)]

\* calculateYearsToFI, part_006 lines 172-194: throws, or returns the years
\* as a count of 1/PerYear year
calculateYearsToFI(annualExpenses, annualSavings, realReturn) ==
    IF annualSavings <= 0 THEN [threw |-> TRUE, value |-> 0]
    ELSE LET targetCorpus == annualExpenses * 25
             monthlyRate == SignedMulDiv(realReturn, Prec, 12 * 100 * PerCent)
             months == YearsToFILoop(targetCorpus, monthlyRate, annualSavings,
                                    [corpus |-> 0, months |-> 0], maxMonths).months
         IN  [threw |-> FALSE, value |-> MulDiv(months, PerYear, 12)]

---------------------------------------------------------------------------
(* Tab-state cache: saveTabState, loadTabState and clearTabState of        *)
(* src/app/utils/cacheUtils.ts.  A JavaScript object is the sequence of    *)
(* its <<key, value>> members in insertion order; a missing value (null,   *)
(* undefined) is <<>> and a present one is <<value>>.                      *)

\* the fields of LoanCachedTabState, cacheUtils.ts lines 1-8
LoanCachedTabState ==
    <<"loanAmount", "annualInterestRate", "loanTenureMonths", "extraPayment",
      "extraPaymentFrequency", "extraPaymentStartMonth">>

\* data[key]
Member(data, key) ==
    LET at == {i \in 1..Len(data) : data[i][1] = key}
    IN  IF at = {} THEN <<>> ELSE <<data[CHOOSE i \in at : TRUE][2]>>

\* data[key] = value: an existing member keeps its place, a new one goes last
SetMember(data, key, value) ==
    IF Member(data, key) = <<>> THEN Append(data, <<key, value>>)
    ELSE [i \in 1..Len(data) |->
             IF data[i][1] = key THEN <<key, value>> ELSE data[i]]

\* delete data[key]
DeleteMember(data, key) ==
    LET Other(member) == member[1] # key
    IN  SelectSeq(data, Other)

\* the number 0 when it is held by extraPaymentFrequency, the one field
\* whose other values are strings
NumberZero == "0"

\* JSON.stringify of a field of a tab state: a string prints quoted, a finite
\* number prints as a numeral
StringifyField(field, value) ==
    IF field = "extraPaymentFrequency" /\ value # NumberZero
    THEN [json |-> "string", characters |-> value]
    ELSE [json |-> "number", numeral |-> value]

ParseField(text) ==
    IF text.json = "number" THEN text.numeral ELSE text.characters

\* JSON.stringify and JSON.parse of a tab state
StringifyState(state) ==
    [i \in 1..Len(LoanCachedTabState) |->
        <<LoanCachedTabState[i],
          StringifyField(LoanCachedTabState[i], state[LoanCachedTabState[i]])>>]

ParseState(text) ==
    [field \in {text[i][1] : i \in 1..Len(text)} |->
        ParseField(Member(text, field)[1])]

\* a stored text: the text of an object, as JSON.stringify writes it, or a
\* text put there by something else, which JSON.parse rejects or which is
\* the literal null
ObjectText(members) == [syntax |-> "object", members |-> members]
MalformedText == [syntax |-> "malformed", members |-> <<>>]
NullText == [syntax |-> "null", members |-> <<>>]

\* JSON.stringify of the object that holds every tab's state
JsonStringify(data) ==
    ObjectText([i \in 1..Len(data) |-> <<data[i][1], StringifyState(data[i][2])>>])

\* JSON.parse(text) raises a SyntaxError
JsonParseThrows(text) == text.syntax = "malformed"

\* JSON.parse(text) is null, so that reading or writing a member of it
\* raises a TypeError
JsonParseIsNull(text) == text.syntax = "null"

\* JSON.parse of the text of an object
JsonParse(text) ==
    [i \in 1..Len(text.members) |->
        <<text.members[i][1], ParseState(text.members[i][2])>>]

\* window.localStorage: whether getItem and setItem can be called at all,
\* and the item under STORAGE_KEY, <<>> or <<text>>
Storage(item) == [accessible |-> TRUE, item |-> item]
BlockedStorage == [accessible |-> FALSE, item |-> <<>>]

\* cacheUtils.ts lines 42-45, the try block of saveTabState: whether it
\* raised, and the storage afterwards
saveTabState_Try(storage, tabId, state) ==
    IF ~storage.accessible THEN [threw |-> TRUE, storage |-> storage]
    ELSE IF storage.item = <<>>
    THEN [threw |-> FALSE,
          storage |-> Storage(<<JsonStringify(SetMember(<<>>, tabId, state))>>)]
    ELSE IF JsonParseThrows(storage.item[1]) \/ JsonParseIsNull(storage.item[1])
    THEN [threw |-> TRUE, storage |-> storage]
    ELSE [threw |-> FALSE,
          storage |-> Storage(<<JsonStringify(
                          SetMember(JsonParse(storage.item[1]), tabId, state))>>)]

\* a slip in saveTabState that starts from an empty object on every save
saveTabState_FreshObject(storage, tabId, state) ==
    [threw |-> FALSE,
     storage |-> Storage(<<JsonStringify(SetMember(<<>>, tabId, state))>>)]

\* saveTabState without its catch clause
saveTabState_Uncaught(storage, tabId, state) ==
    saveTabState_Try(storage, tabId, state)

\* saveTabState, cacheUtils.ts lines 40-49: the catch clause logs the error
\* and returns
saveTabState(storage, tabId, state) ==
    LET attempt == saveTabState_Try(storage, tabId, state)
    IN  IF attempt.threw THEN [threw |-> FALSE, storage |-> storage]
        ELSE attempt

\* cacheUtils.ts lines 53-56, the try block of loadTabState:
\* parsedData[tabId] || null
loadTabState_Try(storage, tabId) ==
    IF ~storage.accessible THEN [threw |-> TRUE, value |-> <<>>]
    ELSE IF storage.item = <<>> THEN [threw |-> FALSE, value |-> <<>>]
    ELSE IF JsonParseThrows(storage.item[1]) \/ JsonParseIsNull(storage.item[1])
    THEN [threw |-> TRUE, value |-> <<>>]
    ELSE [threw |-> FALSE, value |-> Member(JsonParse(storage.item[1]), tabId)]

\* loadTabState, cacheUtils.ts lines 51-61: the catch clause returns null
loadTabState(storage, tabId) ==
    LET attempt == loadTabState_Try(storage, tabId)
    IN  IF attempt.threw THEN [threw |-> FALSE, value |-> <<>>] ELSE attempt

\* cacheUtils.ts lines 65-69, the try block of clearTabState
clearTabState_Try(storage, tabId) ==
    IF ~storage.accessible THEN [threw |-> TRUE, storage |-> storage]
    ELSE IF storage.item = <<>> THEN [threw |-> FALSE, storage |-> storage]
    ELSE IF JsonParseThrows(storage.item[1]) \/ JsonParseIsNull(storage.item[1])
    THEN [threw |-> TRUE, storage |-> storage]
    ELSE [threw |-> FALSE,
          storage |-> Storage(<<JsonStringify(
                          DeleteMember(JsonParse(storage.item[1]), tabId))>>)]

\* clearTabState, cacheUtils.ts lines 63-73
clearTabState(storage, tabId) ==
    LET attempt == clearTabState_Try(storage, tabId)
    IN  IF attempt.threw THEN [threw |-> FALSE, storage |-> storage]
        ELSE attempt

---------------------------------------------------------------------------
(* The LoanCalculator component of part_008: its params state, the effect  *)
(* that runs once after the first render, and its input handlers.          *)

\* the unit of the number typed into an input, in the representation of
\* LoanParams
ScaleOf(field) ==
    IF field \in {"loanAmount", "extraPayment"} THEN Unit
    ELSE IF field = "annualInterestRate" THEN PerCent
    ELSE 1

\* part_008 line 63 on e.target.value, a string: parseFloat(value) || 0.
\* value.number is the number parseFloat reads at the start of the text,
\* <<>> when it reads none and returns NaN.
NewValue(field, value) ==
    IF value.number = <<>> \/ value.number[1] = 0
    THEN (IF field = "extraPaymentFrequency" THEN NumberZero ELSE 0)
    ELSE value.number[1] * ScaleOf(field)

\* part_008 lines 44-49, the effect with no dependencies: a cached state
\* that is not null replaces params
LoadCachedState(pg, storage) ==
    LET cachedState == loadTabState(storage, "basic_loan").value
    IN  [pg EXCEPT !.params = IF cachedState # <<>> THEN cachedState[1] ELSE @,
                   !.loads = @ + 1,
                   !.last = "effect"]

\* a slip in handleInputChange that saves the params it started from
handleInputChange_SavesPrevious(pg, storage, field, value) ==
    LET newParams == [pg.params EXCEPT ![field] = NewValue(field, value)]
    IN  [page |-> [pg EXCEPT !.params = newParams, !.last = "handleInputChange"],
         storage |-> saveTabState(storage, "basic_loan", pg.params).storage]

\* handleInputChange, part_008 lines 62-73: the component and the storage
\* afterwards
handleInputChange(pg, storage, field, value) ==
    LET newParams == [pg.params EXCEPT ![field] = NewValue(field, value)]
    IN  [page |-> [pg EXCEPT !.params = newParams, !.last = "handleInputChange"],
         storage |-> saveTabState(storage, "basic_loan", newParams).storage]

\* handleExtraPaymentToggle, part_008 lines 137-145
handleExtraPaymentToggle(pg, enabled) ==
    [pg EXCEPT !.showExtraPayment = enabled,
               !.params = IF enabled THEN @ ELSE [@ EXCEPT !.extraPayment = 0],
               !.last = "handleExtraPaymentToggle"]

---------------------------------------------------------------------------
(* Inputs.  Tenures and horizons are whole numbers of months, as the pages'
   number inputs supply them; rates are hundredths of a percent. *)

LoanAmounts == {-100 * Unit, 0, 100 * Unit}
AnnualRates == {0, 9 * PerCent}
ExtraPayments == {0, 10 * Unit, 92 * Unit}

LoanInputs ==
    [loanAmount : LoanAmounts,
     annualInterestRate : AnnualRates,
     loanTenureMonths : 0..MaxTenure,
     extraPayment : ExtraPayments,
     extraPaymentFrequency : Frequencies,
     extraPaymentStartMonth : 1..MaxStartMonth]

DefaultLoanParams ==
    [loanAmount |-> 100 * Unit, annualInterestRate |-> 9 * PerCent,
     loanTenureMonths |-> 12, extraPayment |-> 0,
     extraPaymentFrequency |-> "monthly", extraPaymentStartMonth |-> 1]

NoSummary == calculateLoanSummary(<<>>)
NoImpact == [interestSaved |-> 0, tenureReduced |-> 0]
NoEmi == [threw |-> FALSE, value |-> 0]

GrowthRates == {0, 12 * PerCent}
InitialAmounts == {0, 100 * Unit}
Contributions == {0, 10 * Unit}
InflationRates == {<<>>, <<0>>, <<6 * PerCent>>}
TaxBrackets == {<<>>, <<30>>}

IncomeInputs ==
    [initialAmount : InitialAmounts,
     periodicContribution : Contributions,
     contributionFrequency : ContributionFrequencies,
     annualGrowthRate : GrowthRates,
     timeHorizonMonths : 0..MaxHorizon]

GrowthInputs ==
    [initialAmount : InitialAmounts,
     monthlyContribution : Contributions,
     contributionFrequency : GrowthFrequencies,
     annualGrowthRate : GrowthRates,
     timeHorizonMonths : 0..MaxHorizon,
     annualInflationRate : InflationRates,
     taxBracket : TaxBrackets]

DefaultIncomeParams ==
    [initialAmount |-> 0, periodicContribution |-> 10 * Unit,
     contributionFrequency |-> "monthly", annualGrowthRate |-> 12 * PerCent,
     timeHorizonMonths |-> 12]

DefaultGrowthParams ==
    [initialAmount |-> 0, monthlyContribution |-> 10 * Unit,
     contributionFrequency |-> "monthly", annualGrowthRate |-> 12 * PerCent,
     timeHorizonMonths |-> 12, annualInflationRate |-> <<>>, taxBracket |-> <<>>]

NoLoanResults ==
    /\ emiResult = NoEmi
    /\ schedule = <<>>
    /\ summary = NoSummary
    /\ impact = NoImpact
    /\ loanSchedule = <<>>

NoIncomeResults ==
    /\ incomeSchedule = <<>>
    /\ incomeSummary = calculateIncomeSummary(<<>>)
    /\ growthData = <<>>

LoanBalances == {0, 10 * Unit}
LoanRates == {0, 9 * PerCent}
Installments == {0, 5 * Unit}
InvestedAmounts == {0, 5 * Unit, 10 * Unit}
MonthlyInvestments == {0, 44 * (Unit \div 10)}
ExpectedReturns == {0, 60}
EconomicInflation == {0, 4 * PerCent}

AdvancedInputs ==
    [loanAmount : LoanBalances,
     loanInterestRate : LoanRates,
     loanTenureMonths : 0..MaxTenure,
     monthlyEMI : Installments,
     initialAmount : InvestedAmounts,
     monthlyInvestment : MonthlyInvestments,
     expectedReturn : ExpectedReturns,
     inflationRate : EconomicInflation]

DefaultAdvancedParams ==
    [loanAmount |-> 10 * Unit, loanInterestRate |-> 9 * PerCent,
     loanTenureMonths |-> 12, monthlyEMI |-> 5 * Unit, initialAmount |-> 0,
     monthlyInvestment |-> 0, expectedReturn |-> 60,
     inflationRate |-> 4 * PerCent]

AnnualExpenses == {0, Unit, 30 * Unit}
AnnualSavings == {-12 * Unit, 0, 12 * Unit, 24 * Unit}
RealReturns == {-2 * PerCent, 0, 6 * PerCent}

FIInputs ==
    [annualExpenses : AnnualExpenses,
     annualSavings : AnnualSavings,
     realReturn : RealReturns]

DefaultFIParams ==
    [annualExpenses |-> Unit, annualSavings |-> 12 * Unit,
     realReturn |-> 6 * PerCent]

NoFIResult == [threw |-> FALSE, value |-> 0]

Prepayments == {0, Unit}
PrepaymentFrequencies == Frequencies \cup {"weekly"}
InvestmentReturns == {0, 60, 12 * PerCent}

\* loans at 0.6% a year whose tenure is longer than the 1000 months the
\* prepayment simulation allows
LongLoans ==
    [loanAmount : {10 * Unit},
     loanInterestRateAnnual : {60},
     loanTenureMonths : {1001},
     prepaymentAmountPerPeriod : Prepayments,
     prepaymentFrequency : {"monthly"},
     investmentReturnRateAnnual : {0, 60}]

CompareInputs ==
    [loanAmount : LoanBalances,
     loanInterestRateAnnual : LoanRates,
     loanTenureMonths : 0..MaxTenure,
     prepaymentAmountPerPeriod : Prepayments,
     prepaymentFrequency : PrepaymentFrequencies,
     investmentReturnRateAnnual : InvestmentReturns]
    \cup LongLoans

DefaultCompareParams ==
    [loanAmount |-> 10 * Unit, loanInterestRateAnnual |-> 9 * PerCent,
     loanTenureMonths |-> 12, prepaymentAmountPerPeriod |-> 0,
     prepaymentFrequency |-> "monthly",
     investmentReturnRateAnnual |-> 12 * PerCent]

NoMetrics == calculateAdvancedMetrics(DefaultAdvancedParams)

NoAdvancedResults ==
    /\ breakEven = 0
    /\ fiResult = NoFIResult
    /\ cmpResult = NoComparison
    /\ metrics = NoMetrics
    /\ roi = Fin(0)
    /\ interestPaid = Fin(0)
    /\ income = Fin(0)
    /\ taxSavings = Fin(0)
    /\ yearlyTax = Fin(0)

\* the tab ids the pages use: part_008 lines 45 and 70, part_009 lines 52-95
TabIds == {"basic_loan", "comparison_scenario1", "comparison_scenario2"}

\* states a page saves: the record after an input change
CachedStates ==
    {DefaultLoanParams,
     [DefaultLoanParams EXCEPT !.loanAmount = 0,
                               !.extraPaymentFrequency = "annually"]}

NoCacheCall == [fn |-> "none", tabId |-> "none", threw |-> FALSE, result |-> <<>>]
NothingSaved == [t \in TabIds |-> <<>>]

\* part_008 lines 34-41 and 52: the component as first rendered
NoPage ==
    [params |-> DefaultLoanParams, showExtraPayment |-> FALSE,
     loads |-> 0, last |-> "render"]

NoCache ==
    /\ localStorage = Storage(<<>>)
    /\ cacheCall = NoCacheCall
    /\ saved = NothingSaved
    /\ page = NoPage

---------------------------------------------------------------------------
(* The loan engine applied to an input *)

Init ==
    /\ params \in LoanInputs
    /\ calls = {}
    /\ NoLoanResults
    /\ incomeParams = DefaultIncomeParams
    /\ growthParams = DefaultGrowthParams
    /\ NoIncomeResults
    /\ advParams = DefaultAdvancedParams
    /\ fiParams = DefaultFIParams
    /\ cmpParams = DefaultCompareParams
    /\ NoAdvancedResults
    /\ NoCache

\* calculateEMI(params) returns a number; the function has no throw
CalculateEMI ==
    /\ "calculateEMI" \notin calls
    /\ calls' = calls \cup {"calculateEMI"}
    /\ emiResult' = [threw |-> FALSE, value |-> calculateEMI(params)]
    /\ UNCHANGED <<params, schedule, summary, impact, loanSchedule, incomeVars, advancedVars,
                 metricVars, cacheVars>>

\* the schedule and its summary, as the page computes them together
\* (part_008 lines 57-61)
GenerateSchedule ==
    /\ "generateAmortizationSchedule" \notin calls
    /\ calls' = calls \cup {"generateAmortizationSchedule"}
    /\ schedule' = generateAmortizationSchedule(params)
    /\ summary' = calculateLoanSummary(schedule')
    /\ UNCHANGED <<params, emiResult, impact, loanSchedule, incomeVars, advancedVars,
                 metricVars, cacheVars>>

ExtraPaymentImpact ==
    /\ "getExtraPaymentImpact" \notin calls
    /\ calls' = calls \cup {"getExtraPaymentImpact"}
    /\ impact' = getExtraPaymentImpact(params)
    /\ UNCHANGED <<params, emiResult, schedule, summary, loanSchedule, incomeVars, advancedVars,
                 metricVars, cacheVars>>

Next == CalculateEMI \/ GenerateSchedule \/ ExtraPaymentImpact

Spec == Init /\ [][Next]_vars

---------------------------------------------------------------------------
(* calculateLoanSchedule applied to an input, as the compound page calls   *)
(* it (src/app/compound/page.tsx lines 80-86)                              *)

InitLoanSchedule ==
    /\ params \in {p \in LoanInputs : p.extraPaymentStartMonth = 1}
    /\ calls = {}
    /\ NoLoanResults
    /\ incomeParams = DefaultIncomeParams
    /\ growthParams = DefaultGrowthParams
    /\ NoIncomeResults
    /\ advParams = DefaultAdvancedParams
    /\ fiParams = DefaultFIParams
    /\ cmpParams = DefaultCompareParams
    /\ NoAdvancedResults
    /\ NoCache

CalculateLoanSchedule ==
    /\ "calculateLoanSchedule" \notin calls
    /\ calls' = calls \cup {"calculateLoanSchedule"}
    /\ loanSchedule' =
           calculateLoanSchedule(
               [principal |-> params.loanAmount,
                annualRate |-> params.annualInterestRate,
                tenureMonths |-> params.loanTenureMonths,
                extraPayment |-> params.extraPayment,
                extraPaymentFrequency |-> params.extraPaymentFrequency])
    /\ UNCHANGED <<params, emiResult, schedule, summary, impact, incomeVars,
                   advancedVars, metricVars, cacheVars>>

NextLoanSchedule == CalculateLoanSchedule

SpecLoanSchedule == InitLoanSchedule /\ [][NextLoanSchedule]_vars

---------------------------------------------------------------------------
(* The income engine applied to an input *)

InitIncome ==
    /\ \/ incomeParams \in IncomeInputs /\ growthParams = DefaultGrowthParams
       \/ incomeParams = DefaultIncomeParams /\ growthParams \in GrowthInputs
    /\ calls = {}
    /\ NoIncomeResults
    /\ params = DefaultLoanParams
    /\ NoLoanResults
    /\ advParams = DefaultAdvancedParams
    /\ fiParams = DefaultFIParams
    /\ cmpParams = DefaultCompareParams
    /\ NoAdvancedResults
    /\ NoCache

\* the schedule and its summary, as the income page computes them together
\* (src/app/income/page.tsx lines 51-53)
FutureValue ==
    /\ "calculateFutureValue" \notin calls
    /\ calls' = calls \cup {"calculateFutureValue"}
    /\ incomeSchedule' = calculateFutureValue(incomeParams)
    /\ incomeSummary' = calculateIncomeSummary(incomeSchedule')
    /\ UNCHANGED <<loanVars, incomeParams, growthParams, growthData, advancedVars,
                 metricVars, cacheVars>>

IncomeGrowth ==
    /\ "calculateIncomeGrowth" \notin calls
    /\ calls' = calls \cup {"calculateIncomeGrowth"}
    /\ growthData' = calculateIncomeGrowth(growthParams)
    /\ UNCHANGED <<loanVars, incomeParams, growthParams, incomeSchedule,
                   incomeSummary, advancedVars,
                 metricVars, cacheVars>>

NextIncome == FutureValue \/ IncomeGrowth

SpecIncome == InitIncome /\ [][NextIncome]_vars

---------------------------------------------------------------------------
(* The advanced metrics applied to an input *)

\* calculateBreakEvenPoint reads neither monthlyEMI nor inflationRate
BreakEvenInputs ==
    {a \in AdvancedInputs :
         /\ a.monthlyEMI = DefaultAdvancedParams.monthlyEMI
         /\ a.inflationRate = DefaultAdvancedParams.inflationRate}

InitAdvanced ==
    /\ \/ /\ advParams \in BreakEvenInputs
          /\ fiParams = DefaultFIParams
          /\ cmpParams = DefaultCompareParams
       \/ /\ advParams = DefaultAdvancedParams
          /\ fiParams \in FIInputs
          /\ cmpParams = DefaultCompareParams
       \/ /\ advParams = DefaultAdvancedParams
          /\ fiParams = DefaultFIParams
          /\ cmpParams \in CompareInputs
    /\ calls = {}
    /\ NoAdvancedResults
    /\ NoCache
    /\ params = DefaultLoanParams
    /\ NoLoanResults
    /\ incomeParams = DefaultIncomeParams
    /\ growthParams = DefaultGrowthParams
    /\ NoIncomeResults

BreakEvenPoint ==
    /\ "calculateBreakEvenPoint" \notin calls
    /\ calls' = calls \cup {"calculateBreakEvenPoint"}
    /\ breakEven' = calculateBreakEvenPoint(advParams)
    /\ UNCHANGED <<loanVars, incomeVars, metricVars, cacheVars, advParams, fiParams, fiResult,
                   cmpParams, cmpResult>>

YearsToFI ==
    /\ "calculateYearsToFI" \notin calls
    /\ calls' = calls \cup {"calculateYearsToFI"}
    /\ fiResult' = calculateYearsToFI(fiParams.annualExpenses,
                                      fiParams.annualSavings,
                                      fiParams.realReturn)
    /\ UNCHANGED <<loanVars, incomeVars, metricVars, cacheVars, advParams, breakEven, fiParams,
                   cmpParams, cmpResult>>

ComparePrepaymentVsInvestment ==
    /\ "comparePrepaymentVsInvestment" \notin calls
    /\ calls' = calls \cup {"comparePrepaymentVsInvestment"}
    /\ cmpResult' = comparePrepaymentVsInvestment(cmpParams)
    /\ UNCHANGED <<loanVars, incomeVars, metricVars, cacheVars, advParams, breakEven, fiParams,
                   fiResult, cmpParams>>

NextAdvanced == BreakEvenPoint \/ YearsToFI \/ ComparePrepaymentVsInvestment

SpecAdvanced == InitAdvanced /\ [][NextAdvanced]_vars

---------------------------------------------------------------------------
(* calculateAdvancedMetrics and calculateROI applied to an input *)

InitMetrics ==
    /\ advParams \in AdvancedInputs
    /\ fiParams = DefaultFIParams
    /\ cmpParams = DefaultCompareParams
    /\ calls = {}
    /\ NoAdvancedResults
    /\ NoCache
    /\ params = DefaultLoanParams
    /\ NoLoanResults
    /\ incomeParams = DefaultIncomeParams
    /\ growthParams = DefaultGrowthParams
    /\ NoIncomeResults

AdvancedMetrics ==
    /\ "calculateAdvancedMetrics" \notin calls
    /\ calls' = calls \cup {"calculateAdvancedMetrics"}
    /\ metrics' = calculateAdvancedMetrics(advParams)
    /\ UNCHANGED <<loanVars, incomeVars, advancedVars, roi, taxVars, cacheVars>>

ROI ==
    /\ "calculateROI" \notin calls
    /\ calls' = calls \cup {"calculateROI"}
    /\ roi' = calculateROI(advParams)
    /\ UNCHANGED <<loanVars, incomeVars, advancedVars, metrics, taxVars, cacheVars>>

NextMetrics == AdvancedMetrics \/ ROI

SpecMetrics == InitMetrics /\ [][NextMetrics]_vars

---------------------------------------------------------------------------
(* calculateTaxSavings and calculateYearlyTax applied to an amount.  The   *)
(* amount paid in interest comes from a division of the page               *)
(* (AdvancedAnalysis.tsx line 63) and can be NaN or infinite.              *)

TaxedAmounts ==
    {NaN, Infinity(1), Infinity(-1)}
        \cup {Fin(rupees * TaxUnit) :
                  rupees \in {-1, 0, 1, 199999, 200000, 200001, 250000,
                              250001, 600000, 1600000}}

InitTax ==
    /\ interestPaid \in TaxedAmounts
    /\ income \in TaxedAmounts
    /\ taxSavings = Fin(0)
    /\ yearlyTax = Fin(0)
    /\ calls = {}
    /\ advParams = DefaultAdvancedParams
    /\ fiParams = DefaultFIParams
    /\ cmpParams = DefaultCompareParams
    /\ breakEven = 0
    /\ fiResult = NoFIResult
    /\ cmpResult = NoComparison
    /\ metrics = NoMetrics
    /\ roi = Fin(0)
    /\ NoCache
    /\ params = DefaultLoanParams
    /\ NoLoanResults
    /\ incomeParams = DefaultIncomeParams
    /\ growthParams = DefaultGrowthParams
    /\ NoIncomeResults

TaxSavings ==
    /\ "calculateTaxSavings" \notin calls
    /\ calls' = calls \cup {"calculateTaxSavings"}
    /\ taxSavings' = calculateTaxSavings(interestPaid)
    /\ UNCHANGED <<loanVars, incomeVars, advancedVars, metrics, roi,
                   interestPaid, income, yearlyTax, cacheVars>>

YearlyTax ==
    /\ "calculateYearlyTax" \notin calls
    /\ calls' = calls \cup {"calculateYearlyTax"}
    /\ yearlyTax' = calculateYearlyTax(income)
    /\ UNCHANGED <<loanVars, incomeVars, advancedVars, metrics, roi,
                   interestPaid, income, taxSavings, cacheVars>>

NextTax == TaxSavings \/ YearlyTax

SpecTax == InitTax /\ [][NextTax]_vars

---------------------------------------------------------------------------
(* The tab-state cache used by the pages.  The stored item starts absent,  *)
(* as an empty object, or holding one tab's state.                         *)

InitCache ==
    /\ \/ /\ localStorage = Storage(<<>>)
          /\ saved = NothingSaved
       \/ /\ localStorage = Storage(<<JsonStringify(<<>>)>>)
          /\ saved = NothingSaved
       \/ \E state \in CachedStates :
              /\ localStorage =
                     Storage(<<JsonStringify(<< <<"basic_loan", state>> >>)>>)
              /\ saved = [NothingSaved EXCEPT !["basic_loan"] = <<state>>]
    /\ cacheCall = NoCacheCall
    /\ page = NoPage
    /\ calls = {}
    /\ params = DefaultLoanParams
    /\ NoLoanResults
    /\ incomeParams = DefaultIncomeParams
    /\ growthParams = DefaultGrowthParams
    /\ NoIncomeResults
    /\ advParams = DefaultAdvancedParams
    /\ fiParams = DefaultFIParams
    /\ cmpParams = DefaultCompareParams
    /\ NoAdvancedResults

NotCache == <<calls, loanVars, incomeVars, advancedVars, metricVars>>

SaveTabState ==
    \E tabId \in TabIds, state \in CachedStates :
        LET outcome == saveTabState(localStorage, tabId, state)
        IN  /\ localStorage' = outcome.storage
            /\ cacheCall' = [fn |-> "saveTabState", tabId |-> tabId,
                             threw |-> outcome.threw, result |-> <<>>]
            /\ saved' = [saved EXCEPT ![tabId] = <<state>>]
            /\ UNCHANGED <<NotCache, page>>

LoadTabState ==
    \E tabId \in TabIds :
        LET outcome == loadTabState(localStorage, tabId)
        IN  /\ cacheCall' = [fn |-> "loadTabState", tabId |-> tabId,
                             threw |-> outcome.threw, result |-> outcome.value]
            /\ UNCHANGED <<localStorage, saved, NotCache, page>>

ClearTabState ==
    \E tabId \in TabIds :
        LET outcome == clearTabState(localStorage, tabId)
        IN  /\ localStorage' = outcome.storage
            /\ cacheCall' = [fn |-> "clearTabState", tabId |-> tabId,
                             threw |-> outcome.threw, result |-> <<>>]
            /\ saved' = [saved EXCEPT ![tabId] = <<>>]
            /\ UNCHANGED <<NotCache, page>>

NextCache == SaveTabState \/ LoadTabState \/ ClearTabState

SpecCache == InitCache /\ [][NextCache]_vars

---------------------------------------------------------------------------
(* The cache functions on a storage that may be out of order: the item is  *)
(* as in SpecCache, or a text that does not parse to an object, or the     *)
(* storage cannot be accessed.                                             *)

FaultyStorages ==
    {BlockedStorage, Storage(<<MalformedText>>), Storage(<<NullText>>)}

InitCacheFaults ==
    /\ \/ localStorage \in FaultyStorages
       \/ localStorage = Storage(<<>>)
       \/ \E state \in CachedStates :
              localStorage =
                  Storage(<<JsonStringify(<< <<"basic_loan", state>> >>)>>)
    /\ saved = NothingSaved
    /\ cacheCall = NoCacheCall
    /\ page = NoPage
    /\ calls = {}
    /\ params = DefaultLoanParams
    /\ NoLoanResults
    /\ incomeParams = DefaultIncomeParams
    /\ growthParams = DefaultGrowthParams
    /\ NoIncomeResults
    /\ advParams = DefaultAdvancedParams
    /\ fiParams = DefaultFIParams
    /\ cmpParams = DefaultCompareParams
    /\ NoAdvancedResults

SpecCacheFaults == InitCacheFaults /\ [][NextCache]_vars

---------------------------------------------------------------------------
(* The LoanCalculator page over a working storage: the effect runs once    *)
(* after the first render, then the user changes inputs and toggles the    *)
(* extra payment.                                                          *)

\* the strings the inputs of the page can hand over: a number input gives
\* "" or the text of a number, the frequency select gives an option value
InputValues(field) ==
    IF field = "extraPaymentFrequency"
    THEN {[text |-> option, number |-> <<>>] : option \in Frequencies}
    ELSE {[text |-> "", number |-> <<>>], [text |-> "0", number |-> <<0>>],
          [text |-> "12", number |-> <<12>>]}

InitPage ==
    /\ \/ localStorage = Storage(<<>>)
       \/ localStorage = Storage(<<JsonStringify(<<>>)>>)
       \/ \E tabId \in {"basic_loan", "comparison_scenario1"}, state \in CachedStates :
              localStorage = Storage(<<JsonStringify(<< <<tabId, state>> >>)>>)
    /\ saved = NothingSaved
    /\ cacheCall = NoCacheCall
    /\ page = NoPage
    /\ calls = {}
    /\ params = DefaultLoanParams
    /\ NoLoanResults
    /\ incomeParams = DefaultIncomeParams
    /\ growthParams = DefaultGrowthParams
    /\ NoIncomeResults
    /\ advParams = DefaultAdvancedParams
    /\ fiParams = DefaultFIParams
    /\ cmpParams = DefaultCompareParams
    /\ NoAdvancedResults

PageEffect ==
    /\ page.loads = 0
    /\ page' = LoadCachedState(page, localStorage)
    /\ UNCHANGED <<NotCache, localStorage, cacheCall, saved>>

HandleInputChange ==
    /\ page.loads = 1
    /\ \E i \in 1..Len(LoanCachedTabState) :
           \E value \in InputValues(LoanCachedTabState[i]) :
               LET after == handleInputChange(page, localStorage,
                                              LoanCachedTabState[i], value)
               IN  /\ page' = after.page
                   /\ localStorage' = after.storage
    /\ UNCHANGED <<NotCache, cacheCall, saved>>

HandleExtraPaymentToggle ==
    /\ page.loads = 1
    /\ \E enabled \in BOOLEAN : page' = handleExtraPaymentToggle(page, enabled)
    /\ UNCHANGED <<NotCache, localStorage, cacheCall, saved>>

NextPage == PageEffect \/ HandleInputChange \/ HandleExtraPaymentToggle

SpecPage == InitPage /\ [][NextPage]_vars

---------------------------------------------------------------------------
(* Claims about the loan engine, checked under Spec *)

ValidLoanParams(p) ==
    /\ p.loanAmount > 0
    /\ p.loanTenureMonths > 0
    /\ p.annualInterestRate >= 0
    /\ p.extraPayment >= 0

Generated == "generateAmortizationSchedule" \in calls

LastRow == schedule[Len(schedule)]

\* C1 (as stated): for valid LoanParams the sum over all rows of
\* row.principal + row.extraPayment equals loanAmount within 0.01.
C1_Conservation ==
    (Generated /\ ValidLoanParams(params)) =>
        Abs(SumSeq([i \in 1..Len(schedule) |->
                       schedule[i].principal + schedule[i].extraPayment])
            - params.loanAmount) <= Cent

\* C2: for valid LoanParams the remainingBalance of the rows never increases
\* from a row to the next, and the last row has remainingBalance exactly 0 at
\* a month no later than loanTenureMonths.
C2_Monotonicity ==
    (Generated /\ ValidLoanParams(params)) =>
        /\ \A i \in 1..(Len(schedule) - 1) :
               schedule[i + 1].remainingBalance <= schedule[i].remainingBalance
        /\ Len(schedule) >= 1 =>
               /\ LastRow.remainingBalance = 0
               /\ LastRow.month <= params.loanTenureMonths

\* an early payoff: extra payments retire the loan before the tenure ends
C2_Witness ==
    /\ Generated
    /\ ValidLoanParams(params)
    /\ params.extraPayment > 0
    /\ Len(schedule) > 1
    /\ Len(schedule) < params.loanTenureMonths
    /\ schedule[1].remainingBalance > 0
    /\ LastRow.remainingBalance = 0

\* C3 (as stated): calculateEMI fails with InvalidParameters, and returns no
\* number, whenever loanAmount <= 0 or loanTenureMonths <= 0.
C3_InvalidParameters ==
    ("calculateEMI" \in calls
        /\ (params.loanAmount <= 0 \/ params.loanTenureMonths <= 0))
    => emiResult.threw

\* C4: with the other parameters fixed and 0 <= e1 <= e2, the schedule for e2
\* has no more total interest and no more rows than the schedule for e1; and
\* getExtraPaymentImpact returns interestSaved >= 0 and tenureReduced >= 0
\* for every extraPayment >= 0.
C4_ExtraPaymentImprovement ==
    /\ Generated =>
         \A e1 \in ExtraPayments :
            (0 <= e1 /\ e1 <= params.extraPayment) =>
                LET s1 == generateAmortizationSchedule(
                              [params EXCEPT !.extraPayment = e1])
                IN  /\ calculateLoanSummary(s1).totalInterest >= summary.totalInterest
                    /\ Len(s1) >= Len(schedule)
    /\ ("getExtraPaymentImpact" \in calls /\ params.extraPayment >= 0) =>
         /\ impact.interestSaved >= 0
         /\ impact.tenureReduced >= 0

\* a larger extra payment that strictly saves interest and months
C4_Witness ==
    /\ Generated
    /\ "getExtraPaymentImpact" \in calls
    /\ ValidLoanParams(params)
    /\ impact.interestSaved > 0
    /\ impact.tenureReduced > 0
    /\ \E e1 \in ExtraPayments :
          /\ 0 < e1
          /\ e1 < params.extraPayment
          /\ calculateLoanSummary(generateAmortizationSchedule(
                 [params EXCEPT !.extraPayment = e1])).totalInterest
               > summary.totalInterest

\* C5 (as stated): with remainingBalance(0) = loanAmount, every row n has
\* remainingBalance(n) = max(0, remainingBalance(n-1) - principal(n)
\* - extraPayment(n)), on the values stored in the rows.
C5_BalanceRecurrence ==
    Generated =>
        \A n \in 1..Len(schedule) :
            schedule[n].remainingBalance =
                Max(0, (IF n = 1 THEN params.loanAmount
                                 ELSE schedule[n - 1].remainingBalance)
                       - schedule[n].principal - schedule[n].extraPayment)

\* C6 (as stated): the schedule has at most loanTenureMonths rows, its month
\* fields are 1, 2, ..., k in order, and no row follows a row whose
\* remainingBalance is 0.
C6_ScheduleShape ==
    Generated =>
        /\ Len(schedule) <= params.loanTenureMonths
        /\ \A i \in 1..Len(schedule) : schedule[i].month = i
        /\ \A i \in 1..(Len(schedule) - 1) : schedule[i].remainingBalance # 0

\* C7: with annualInterestRate = 0, loanAmount > 0 and loanTenureMonths > 0,
\* calculateEMI returns loanAmount / loanTenureMonths: the representable
\* number nearest to the quotient.
C7_ZeroRate ==
    ("calculateEMI" \in calls
        /\ params.annualInterestRate = 0
        /\ params.loanAmount > 0
        /\ params.loanTenureMonths > 0)
    => /\ ~emiResult.threw
       /\ 2 * Abs(emiResult.value * params.loanTenureMonths - params.loanAmount)
             <= params.loanTenureMonths

\* a zero-rate loan over several months whose installment is not a whole
\* number of hundredths
C7_Witness ==
    /\ "calculateEMI" \in calls
    /\ params.annualInterestRate = 0
    /\ params.loanAmount > 0
    /\ params.loanTenureMonths > 1
    /\ emiResult.value > 0
    /\ emiResult.value < params.loanAmount
    /\ emiResult.value % Cent # 0

\* the balance a row starts from, as the rows report it
BalanceBefore(i) ==
    IF i = 1 THEN params.loanAmount ELSE schedule[i - 1].remainingBalance

\* C16: in a month where the scheduled principal (installment - interest)
\* plus the configured extra payment would exceed the remaining balance,
\* the principal reduction is the remaining balance and the row's
\* extraPayment is the residual needed (remaining balance minus scheduled
\* principal, floored at 0), to the rounding of the row's fields; no row has
\* a negative remainingBalance.
C16_OverpaymentClamp ==
    Generated =>
        \A i \in 1..Len(schedule) :
            LET row == schedule[i]
                scheduled == row.payment - row.interest
                configured == ExtraPaymentFor(params, row.month)
            IN  /\ row.remainingBalance >= 0
                /\ scheduled + configured > BalanceBefore(i) + 2 * Cent =>
                      /\ row.remainingBalance = 0
                      /\ Abs(row.principal - BalanceBefore(i)) <= 2 * Cent
                      /\ Abs(row.extraPayment
                               - Max(0, BalanceBefore(i) - scheduled)) <= 2 * Cent

\* months between two extra payments, as the claim gives them
PeriodOf(frequency) ==
    CASE frequency = "monthly" -> 1
      [] frequency = "quarterly" -> 3
      [] frequency = "semiannually" -> 6
      [] frequency = "annually" -> 12

\* C17: the configured extra payment is applied in month m exactly when
\* m >= extraPaymentStartMonth and (m - extraPaymentStartMonth) is a multiple
\* of 1, 3, 6 or 12 for monthly, quarterly, semiannually or annually; in
\* every other month the extra payment applied is 0.
C17_ExtraPaymentTiming ==
    Generated =>
        \A i \in 1..Len(schedule) :
            LET row == schedule[i]
                due == /\ row.month >= params.extraPaymentStartMonth
                       /\ (row.month - params.extraPaymentStartMonth)
                              % PeriodOf(params.extraPaymentFrequency) = 0
            IN  row.extraPayment = IF due THEN params.extraPayment ELSE 0

\* a quarterly extra payment starting in month 2: paid in months 2 and 5,
\* not in months 1, 3 and 4
C17_Witness ==
    /\ Generated
    /\ params.extraPaymentFrequency = "quarterly"
    /\ params.extraPaymentStartMonth = 2
    /\ params.extraPayment > 0
    /\ Len(schedule) >= 5
    /\ schedule[1].extraPayment = 0
    /\ schedule[2].extraPayment = params.extraPayment
    /\ schedule[3].extraPayment = 0
    /\ schedule[4].extraPayment = 0
    /\ schedule[5].extraPayment = params.extraPayment

\* C18: every row has totalPayment = payment + extraPayment.
C18_RowTotalPayment ==
    Generated =>
        \A i \in 1..Len(schedule) :
            schedule[i].totalPayment
                = schedule[i].payment + schedule[i].extraPayment

---------------------------------------------------------------------------
(* Claims about calculateLoanSchedule, checked under SpecLoanSchedule *)

\* C27: for principal > 0, annualRate > 0, tenureMonths > 0 and
\* extraPayment >= 0, every row of calculateLoanSchedule has
\* extraPayment >= 0, remainingBalance never rises from one row to the
\* next, and the last row has remainingBalance = 0.
C27_LoanScheduleBalance ==
    ("calculateLoanSchedule" \in calls
        /\ params.loanAmount > 0 /\ params.annualInterestRate > 0
        /\ params.loanTenureMonths > 0 /\ params.extraPayment >= 0)
    => /\ Len(loanSchedule) > 0
       /\ \A i \in 1..Len(loanSchedule) : loanSchedule[i].extraPayment >= 0
       /\ \A i \in 2..Len(loanSchedule) :
              loanSchedule[i].remainingBalance
                  <= loanSchedule[i - 1].remainingBalance
       /\ loanSchedule[Len(loanSchedule)].remainingBalance = 0

---------------------------------------------------------------------------
(* Claims about the income engine, checked under SpecIncome *)

\* C8 (as stated): for timeHorizonMonths = H > 0 both projections return
\* exactly H rows, with month fields 1, 2, ..., H.
C8_IncomeScheduleLength ==
    /\ ("calculateFutureValue" \in calls /\ incomeParams.timeHorizonMonths > 0) =>
          /\ Len(incomeSchedule) = incomeParams.timeHorizonMonths
          /\ \A i \in 1..Len(incomeSchedule) : incomeSchedule[i].month = i
    /\ ("calculateIncomeGrowth" \in calls /\ growthParams.timeHorizonMonths > 0) =>
          /\ Len(growthData) = growthParams.timeHorizonMonths
          /\ \A i \in 1..Len(growthData) : growthData[i].month = i

\* C8 (amended): for timeHorizonMonths = H > 0, calculateFutureValue returns
\* exactly H rows with month fields 1, 2, ..., H, and calculateIncomeGrowth
\* returns exactly H + 1 rows with month fields 0, 1, ..., H.
C8_IncomeScheduleMonths ==
    /\ ("calculateFutureValue" \in calls /\ incomeParams.timeHorizonMonths > 0) =>
          /\ Len(incomeSchedule) = incomeParams.timeHorizonMonths
          /\ \A i \in 1..Len(incomeSchedule) : incomeSchedule[i].month = i
    /\ ("calculateIncomeGrowth" \in calls /\ growthParams.timeHorizonMonths > 0) =>
          /\ Len(growthData) = growthParams.timeHorizonMonths + 1
          /\ \A i \in 1..Len(growthData) : growthData[i].month = i - 1

\* both projections computed over horizons of several months
C8_Witness ==
    /\ "calculateFutureValue" \in calls
    /\ "calculateIncomeGrowth" \in calls
    /\ incomeParams.timeHorizonMonths > 1
    /\ growthParams.timeHorizonMonths > 1
    /\ Len(incomeSchedule) = incomeParams.timeHorizonMonths
    /\ Len(growthData) = growthParams.timeHorizonMonths + 1
    /\ growthData[1].month = 0

\* C9: every row of calculateFutureValue has endingBalance = startingBalance
\* + contribution + growth and growth = (startingBalance + contribution) *
\* monthlyRate, with the one monthly rate of the schedule.
C9_IncomeRowInvariant ==
    "calculateFutureValue" \in calls =>
        LET monthlyRate == CompoundedMonthlyRate(incomeParams.annualGrowthRate)
        IN  \A i \in 1..Len(incomeSchedule) :
               LET row == incomeSchedule[i]
               IN  /\ row.endingBalance =
                          row.startingBalance + row.contribution + row.growth
                   /\ row.growth =
                          MulDiv(row.startingBalance + row.contribution,
                                 monthlyRate, Prec)

\* a month that both receives a contribution and grows an earlier balance
C9_Witness ==
    /\ "calculateFutureValue" \in calls
    /\ Len(incomeSchedule) >= 2
    /\ \E i \in 1..Len(incomeSchedule) :
          /\ incomeSchedule[i].startingBalance > 0
          /\ incomeSchedule[i].contribution > 0
          /\ incomeSchedule[i].growth > 0

\* what C10 compares: totalValue, totalContributions and monthlyIncome, month
\* by month
Reported(data) ==
    [i \in 1..Len(data) |->
        <<data[i].month, data[i].totalValue, data[i].totalContributions,
          data[i].monthlyIncome>>]

\* C10: records that differ only in annualInflationRate give the same
\* totalValue, totalContributions and monthlyIncome month by month.
C10_InflationReportingOnly ==
    "calculateIncomeGrowth" \in calls =>
        \A inflation \in InflationRates :
            Reported(calculateIncomeGrowth(
                [growthParams EXCEPT !.annualInflationRate = inflation]))
              = Reported(growthData)

\* a projection that reports inflation-adjusted figures below the nominal ones
C10_Witness ==
    /\ "calculateIncomeGrowth" \in calls
    /\ Truthy(growthParams.annualInflationRate)
    /\ Len(growthData) >= 2
    /\ \E i \in 1..Len(growthData) :
          /\ Truthy(growthData[i].inflationAdjustedValue)
          /\ growthData[i].inflationAdjustedValue[1] < growthData[i].totalValue

\* C19: the contribution of month m (m from 1) is periodicContribution
\* exactly when the frequency is monthly, or quarterly and m is 1, 4, 7, ...,
\* or annually and m is 1, 13, 25, ..., or one-time and m = 1; it is 0 in
\* every other month.
C19_ContributionTiming ==
    "calculateFutureValue" \in calls =>
        \A i \in 1..Len(incomeSchedule) :
            LET m == incomeSchedule[i].month
                frequency == incomeParams.contributionFrequency
                due == \/ frequency = "monthly"
                       \/ frequency = "quarterly"
                              /\ \E k \in 0..MaxHorizon : m = 1 + 3 * k
                       \/ frequency = "annually"
                              /\ \E k \in 0..MaxHorizon : m = 1 + 12 * k
                       \/ frequency = "one-time" /\ m = 1
            IN  /\ m = i
                /\ incomeSchedule[i].contribution =
                       IF due THEN incomeParams.periodicContribution ELSE 0

\* an annual contribution over 13 months: paid in months 1 and 13 only
C19_Witness ==
    /\ "calculateFutureValue" \in calls
    /\ incomeParams.contributionFrequency = "annually"
    /\ incomeParams.periodicContribution > 0
    /\ Len(incomeSchedule) >= 13
    /\ incomeSchedule[1].contribution = incomeParams.periodicContribution
    /\ incomeSchedule[12].contribution = 0
    /\ incomeSchedule[13].contribution = incomeParams.periodicContribution

---------------------------------------------------------------------------
(* Claims about the advanced metrics, checked under SpecAdvanced *)

BrokeEven == "calculateBreakEvenPoint" \in calls

\* the case of C11: a real loan against an investment that stays flat
FlatInvestment(p) ==
    /\ p.loanAmount > 0
    /\ p.loanInterestRate > 0
    /\ p.loanTenureMonths > 0
    /\ p.expectedReturn = 0
    /\ p.monthlyInvestment = 0

\* the closed-form balance of the loan of p after m payments
BalanceAfter(p, m) ==
    calculateRemainingLoanBalance(p.loanAmount, p.loanInterestRate,
                                  p.loanTenureMonths, m)

C12_YearsToFIThrows ==
    ("calculateYearsToFI" \in calls /\ fiParams.annualSavings <= 0)
    => fiResult.threw

\* zero savings against real expenses: the loop could never reach its target
C12_Witness ==
    /\ "calculateYearsToFI" \in calls
    /\ fiParams.annualSavings = 0
    /\ fiParams.annualExpenses > 0
    /\ fiResult.threw

Compared == "comparePrepaymentVsInvestment" \in calls /\ ~cmpResult.threw

\* C13: difference = interestSaved - netGainFromInvestment;
\* betterOption is 'Prepay Loan' exactly when interestSaved >
\* netGainFromInvestment and 'Invest Money' exactly when
\* netGainFromInvestment > interestSaved.
C13_ComparatorVerdict ==
    Compared =>
        /\ cmpResult.difference =
               JsMinus(cmpResult.interestSaved, cmpResult.netGainFromInvestment)
        /\ cmpResult.betterOption = "Prepay Loan"
               <=> JsLess(cmpResult.netGainFromInvestment, cmpResult.interestSaved)
        /\ cmpResult.betterOption = "Invest Money"
               <=> JsLess(cmpResult.interestSaved, cmpResult.netGainFromInvestment)

\* the investment balance of p after m months: initialAmount, then each
\* month multiplied by 1 + expectedReturn / 1200 and increased by
\* monthlyInvestment
RECURSIVE InvestmentAfter(_, _)
InvestmentAfter(p, m) ==
    IF m = 0 THEN p.initialAmount
    ELSE MulDiv(InvestmentAfter(p, m - 1),
                Prec + MonthlyRate(p.expectedReturn), Prec)
             + p.monthlyInvestment

\* the investment balance after m months is >= the loan balance after m months
Crossed(p, m) ==
    /\ ~IsNaN(BalanceAfter(p, m))
    /\ ~JsLess(Fin(InvestmentAfter(p, m)), BalanceAfter(p, m))

\* C20: for loanInterestRate > 0, calculateBreakEvenPoint returns the
\* smallest month m in 0..loanTenureMonths at which the investment balance
\* after m months is >= the loan's closed-form remaining balance after m
\* months, and loanTenureMonths if there is no such month.
C20_BreakEvenFirstCrossing ==
    (BrokeEven /\ advParams.loanInterestRate > 0) =>
        LET p == advParams
            crossings == {m \in 0..p.loanTenureMonths : Crossed(p, m)}
        IN  breakEven = IF crossings = {} THEN p.loanTenureMonths
                        ELSE CHOOSE m \in crossings :
                                 \A k \in crossings : m <= k

\* the corpus after 0, 1, ..., k months of saving annualSavings / 12 a
\* month at the monthly rate, from the corpus `start`
RECURSIVE CorpusTrajectory(_, _, _, _)
CorpusTrajectory(monthlyRate, annualSavings, start, k) ==
    IF k = 0 THEN <<start>>
    ELSE IF k = 1
         THEN <<start, SignedMulDiv(start, Prec + monthlyRate, Prec)
                           + SignedMulDiv(annualSavings, 1, 12)>>
    ELSE LET left == CorpusTrajectory(monthlyRate, annualSavings, start, k \div 2)
             right == CorpusTrajectory(monthlyRate, annualSavings,
                                       left[Len(left)], k - (k \div 2))
         IN  left \o Tail(right)

C22_ComparatorIterationCap ==
    ("comparePrepaymentVsInvestment" \in calls
        /\ cmpParams.prepaymentFrequency \in Frequencies)
    => /\ ~cmpResult.threw
       /\ cmpResult.monthsTakenToRepayLoan \in 0..1000

\* a loan of 1001 months without prepayments: the simulation stops at the
\* cap, one installment short, and reports the interest paid until then
C22_Witness ==
    /\ Compared
    /\ cmpParams.loanTenureMonths > 1000
    /\ cmpParams.prepaymentAmountPerPeriod = 0
    /\ cmpResult.monthsTakenToRepayLoan = 1000
    /\ JsLess(cmpResult.totalInterestPaid,
              cmpResult.totalInterestWithoutPrepayment)

\* C23: for every frequency, the investment scenario invests
\* prepaymentAmountPerPeriod once per prepayment period over the loan tenure:
\* loanTenureMonths / monthsPerPeriod contributions, and a total invested of
\* amount * loanTenureMonths / monthsPerPeriod; the reported gain is the gain
\* of that scenario.
C23_SamePeriodicAmount ==
    (Compared /\ cmpParams.prepaymentFrequency \in Frequencies) =>
        LET monthsPerPeriod == MonthsPerPeriod(cmpParams.prepaymentFrequency)
            invested == InvestmentScenario(cmpParams,
                                           PeriodicInvestmentRate(cmpParams))
        IN  /\ cmpResult.netGainFromInvestment = invested.netGainFromInvestment
            /\ invested.contributions
                   = cmpParams.loanTenureMonths \div monthsPerPeriod
            /\ invested.totalInvestment * monthsPerPeriod
                   = cmpParams.prepaymentAmountPerPeriod
                         * cmpParams.loanTenureMonths

\* C28: for loanAmount > 0, loan rate > 0, tenure > 0 and
\* prepaymentAmountPerPeriod >= 0, interestSaved >= 0; and when
\* prepaymentAmountPerPeriod = 0, interestSaved = 0 and
\* monthsTakenToRepayLoan = loanTenureMonths.
C28_PrepaymentNeverCosts ==
    (Compared /\ cmpParams.loanAmount > 0 /\ cmpParams.loanInterestRateAnnual > 0
        /\ cmpParams.loanTenureMonths > 0
        /\ cmpParams.prepaymentAmountPerPeriod >= 0)
    => /\ ~JsLess(cmpResult.interestSaved, Fin(0))
       /\ ~IsNaN(cmpResult.interestSaved)
       /\ cmpParams.prepaymentAmountPerPeriod = 0 =>
              /\ cmpResult.interestSaved = Fin(0)
              /\ cmpResult.monthsTakenToRepayLoan = cmpParams.loanTenureMonths

---------------------------------------------------------------------------
(* Claims about calculateAdvancedMetrics and calculateROI, checked under   *)
(* SpecMetrics                                                             *)

\* C14: every ratio output is 0 when its denominator input is zero:
\* effectiveInterestRate and loanCostRatio when loanAmount = 0;
\* effectiveReturnRate, wealthAccumulationRate and calculateROI when
\* initialAmount = 0 and monthlyInvestment = 0; investmentVsLoanRatio when
\* monthlyEMI = 0.
C14_DivisionByZeroTolerance ==
    /\ "calculateAdvancedMetrics" \in calls =>
          /\ advParams.loanAmount = 0 =>
                /\ metrics.effectiveInterestRate = Fin(0)
                /\ metrics.loanCostRatio = Fin(0)
          /\ (advParams.initialAmount = 0 /\ advParams.monthlyInvestment = 0) =>
                /\ metrics.effectiveReturnRate = Fin(0)
                /\ metrics.wealthAccumulationRate = Fin(0)
          /\ advParams.monthlyEMI = 0 => metrics.investmentVsLoanRatio = Fin(0)
    /\ ("calculateROI" \in calls
           /\ advParams.initialAmount = 0 /\ advParams.monthlyInvestment = 0)
       => roi = Fin(0)

\* C24: for every expectedReturn and every inflationRate, 0 included,
\* calculateAdvancedMetrics returns realReturnAfterInflation =
\* expectedReturn - inflationRate.
C24_RealReturnSubtraction ==
    "calculateAdvancedMetrics" \in calls =>
        metrics.realReturnAfterInflation
            = advParams.expectedReturn - advParams.inflationRate

---------------------------------------------------------------------------
(* Claims about the tax functions, checked under SpecTax *)

\* C30: calculateTaxSavings(interestPaid) equals
\* calculateYearlyTax(min(interestPaid, 200000)) for every interestPaid, and
\* it is 0 for every input, the first bracket being wider than the cap.
C30_TaxSavingsAlwaysZero ==
    "calculateTaxSavings" \in calls =>
        /\ taxSavings
               = calculateYearlyTax(JsMin(interestPaid, Fin(200000 * TaxUnit)))
        /\ taxSavings = Fin(0)

---------------------------------------------------------------------------
(* Claims about the tab-state cache, checked under SpecCache *)

---------------------------------------------------------------------------
(* Claims about the LoanCalculator page, checked under SpecPage *)

\* C25: after every handleInputChange call, in any sequence of parameter
\* changes, the cache entry of tab 'basic_loan' equals the component's
\* current params; the cache is read once, by the effect that follows the
\* first render, and a cached record that is not null replaces the default
\* params.  The storage of SpecPage is in working order.
C25_WriteThroughCache ==
    LET cached == loadTabState(localStorage, "basic_loan").value
    IN  /\ page.last = "handleInputChange" => cached = <<page.params>>
        /\ page.loads \in {0, 1}
        /\ page.last = "render" <=> page.loads = 0
        /\ page.last = "effect" =>
               page.params = IF cached # <<>> THEN cached[1] ELSE NoPage.params

\* the frequency and the amount changed while the extra payment is switched
\* off and another tab's state is stored
C25_Witness ==
    /\ page.last = "handleInputChange"
    /\ page.loads = 1
    /\ ~page.showExtraPayment
    /\ page.params.extraPaymentFrequency = NumberZero
    /\ page.params.loanAmount = 0
    /\ page.params.loanTenureMonths = 12
    /\ loadTabState(localStorage, "basic_loan").value = <<page.params>>
    /\ loadTabState(localStorage, "comparison_scenario1").value # <<>>

---------------------------------------------------------------------------
(* Claims about the cache on a faulty storage, checked under               *)
(* SpecCacheFaults                                                         *)

\* C26: when the stored text does not parse to an object, or the storage
\* cannot be accessed, loadTabState returns null, and saveTabState and
\* clearTabState return without raising and leave the stored value as it
\* was.
C26_CacheErrorsContained ==
    [][(localStorage \in FaultyStorages) =>
           (/\ localStorage' = localStorage
            /\ ~cacheCall'.threw
            /\ cacheCall'.fn = "loadTabState" => cacheCall'.result = <<>>)]_vars

\* a state saved over a text that does not parse, which is still there
C26_Witness ==
    /\ cacheCall.fn = "saveTabState"
    /\ ~cacheCall.threw
    /\ saved[cacheCall.tabId] # <<>>
    /\ localStorage = Storage(<<MalformedText>>)

====
